---- MODULE Spec2Model ----
(***************************************************************************)
(* Model of wfdb/io/record.py: rdrecord on a single-segment Record and on  *)
(* a MultiRecord header (check_read_inputs, _required_segments,            *)
(* _required_channels, the per-segment reads, _arrange_fields,             *)
(* multi_to_single), BaseRecord.check_field with its helpers, and          *)
(* MultiRecord._check_segment_cohesion.                                    *)
(*                                                                         *)
(* Python values are represented as follows.  Lists are sequences, and a   *)
(* Python index i is position i+1 of the sequence.  None is "None" where   *)
(* a string is expected (a field entry) and the empty function <<>> where  *)
(* an object or an array is expected (a segment, a signal array, a date,   *)
(* a time).  A datetime.date is <<year, month, day>>, a datetime.time is   *)
(* <<hour, minute, second, microsecond>>, fs is an integer.  Header        *)
(* field entries (fmt, adc_gain, baseline, units) are only ever compared   *)
(* for equality by this code, so they are kept as strings.  A sample is    *)
(* the tuple <<kind, segment, row, channel>> naming the cell of the dat    *)
(* file it was read from.                                                  *)
(***************************************************************************)
EXTENDS Integers, Sequences, FiniteSets, TLC

VARIABLES
    dir,            \* the header files on disk: segment name -> header fields
    layout,         \* MultiRecord.layout; None for a single-segment Record
    fs,             \* record line of the header: fs
    counter_freq,   \* record line of the header: counter_freq
    base_counter,   \* record line of the header: base_counter
    base_time,      \* record line of the header: base_time
    base_date,      \* record line of the header: base_date
    base_datetime,  \* attribute base_datetime, which only _adjust_datetime sets
    n_sig,          \* MultiRecord.n_sig
    sig_len,        \* MultiRecord.sig_len
    n_seg,          \* MultiRecord.n_seg
    seg_name,       \* MultiRecord.seg_name
    seg_len,        \* MultiRecord.seg_len
    segments,       \* MultiRecord.segments
    sampfrom,       \* rdrecord argument
    sampto,         \* rdrecord argument (already defaulted to sig_len)
    channels,       \* rdrecord argument (already defaulted)
    channel_names,  \* rdrecord argument: <<>> for None, <<names>> for a list
    warn_empty,     \* rdrecord argument
    ignore_skew,    \* rdrecord argument
    physical,       \* rdrecord argument
    smooth_frames,  \* rdrecord argument
    return_res,     \* rdrecord argument
    force_channels, \* rdrecord argument
    m2s,            \* rdrecord argument
    seg_numbers,    \* local of rdrecord, from _required_segments
    seg_ranges,     \* local of rdrecord, from _required_segments
    seg_channels,   \* local of rdrecord, from _required_channels
    result,         \* the Record rdrecord returns when it is not the MultiRecord
    stdout,         \* the lines printed so far
    cf_field,       \* check_field argument `field`
    cf_item,        \* the value of self.<field> that check_field is given
    cf_required_channels, \* check_field argument `required_channels`
    self_rec,       \* the object a method of the write path or __eq__ is called on
    other_rec,      \* __eq__ argument `other`
    args,           \* the arguments of the function wrsamp, or of the call of rdrecord
    calls,          \* the calls the function wrsamp has made so far
    written,        \* the files written so far, in the order of writing
    pc,             \* position inside rdrecord, or inside the method under check
    err             \* the exception that ended the call, "" when none

vars == <<dir, layout, fs, counter_freq, base_counter, base_time, base_date,
          base_datetime,
          n_sig, sig_len, n_seg, seg_name, seg_len, segments,
          sampfrom, sampto, channels, channel_names, warn_empty, ignore_skew, physical,
          smooth_frames, return_res, force_channels, m2s,
          seg_numbers, seg_ranges, seg_channels,
          result, stdout, cf_field, cf_item, cf_required_channels,
          self_rec, other_rec, args, calls, written, pc, err>>

header == <<dir, layout, fs, counter_freq, base_counter, base_time, base_date,
            base_datetime>>
\* the part of the header that no read changes
record_line == <<dir, layout, fs, counter_freq, base_counter>>
inputs == <<sampfrom, sampto, channels, channel_names, warn_empty, ignore_skew, physical,
            smooth_frames, return_res, force_channels, m2s>>
checked == <<cf_field, cf_item, cf_required_channels>>
writing == <<self_rec, other_rec, args, calls, written>>

(***************************************************************************)
(* Bounds of the model.                                                    *)
(***************************************************************************)
MaxSeg == 3         \* most data segments of a record
MaxSegLen == 2      \* most samples of a data segment
MaxChannels == 3    \* most entries of a per-channel field given to check_field

(***************************************************************************)
(* Python helpers.                                                         *)
(***************************************************************************)
None == "None"
NoObject == <<>>
\* None where the other values are integers: sampto=None (record.py 1820) and
\* the sig_len of a header that does not state the signal length
NoInt == -999

At(l, i) == l[i + 1]

\* l[a:b] for 0 <= a, b
Slice(l, a, b) == IF b > Len(l) THEN SubSeq(l, a + 1, Len(l)) ELSE SubSeq(l, a + 1, b)

RECURSIVE Sum(_)
Sum(l) == IF l = <<>> THEN 0 ELSE l[1] + Sum(Tail(l))

\* list(np.cumsum(l))
CumSum(l) == [i \in 1..Len(l) |-> Sum(SubSeq(l, 1, i))]

Contains(l, x) == \E i \in 1..Len(l) : l[i] = x

\* l.index(x), for x in l
Index(l, x) == (CHOOSE i \in 1..Len(l) : l[i] = x /\ \A j \in 1..(i - 1) : l[j] # x) - 1

Min(S) == CHOOSE x \in S : \A y \in S : x <= y
Max(S) == CHOOSE x \in S : \A y \in S : x >= y

Range(l) == {l[i] : i \in 1..Len(l)}

SeqsUpTo(S, n) == UNION {[1..k -> S] : k \in 0..n}

Injective(l) == \A i, j \in 1..Len(l) : l[i] = l[j] => i = j

(***************************************************************************)
(* The header files of a record.  The layout specification header of a     *)
(* variable-layout record names the channels SigNames; a data segment      *)
(* header names a subset of them in its own order.  Each signal name has   *)
(* its own fmt, adc_gain, baseline and units (BaseField); a segment may    *)
(* store channel "I" with one of the four fields changed (OddField).       *)
(***************************************************************************)
SigNames == <<"I", "II">>
SpecFields == {"fmt", "adc_gain", "baseline", "units"}

BaseField(field, name) ==
    CASE field = "fmt"      -> IF name = "I" THEN "16" ELSE "212"
      [] field = "adc_gain" -> IF name = "I" THEN "200.0" ELSE "100.0"
      [] field = "baseline" -> IF name = "I" THEN "0" ELSE "5"
      [] field = "units"    -> IF name = "I" THEN "mV" ELSE "V"
      [] field = "skew"     -> 0

OddField(field) ==
    CASE field = "fmt"      -> "80"
      [] field = "adc_gain" -> "50.0"
      [] field = "baseline" -> "-1"
      [] field = "units"    -> "uV"
      [] field = "skew"     -> 1

HeaderField(field, name, odd) ==
    IF name = "I" /\ odd = field THEN OddField(field) ELSE BaseField(field, name)

\* The fields rdheader returns for a segment header naming `names`.
SegHeader(name, names, odd, len) ==
    [record_name |-> name,
     n_sig       |-> Len(names),
     sig_len     |-> len,
     sig_name    |-> names,
     fmt         |-> [i \in 1..Len(names) |-> HeaderField("fmt", names[i], odd)],
     adc_gain    |-> [i \in 1..Len(names) |-> HeaderField("adc_gain", names[i], odd)],
     baseline    |-> [i \in 1..Len(names) |-> HeaderField("baseline", names[i], odd)],
     units       |-> [i \in 1..Len(names) |-> HeaderField("units", names[i], odd)],
     skew        |-> [i \in 1..Len(names) |-> HeaderField("skew", names[i], odd)]]

SegFileNames == <<"seg_1", "seg_2", "seg_3", "seg_4", "seg_5", "seg_6">>
LayoutName == "layout"
NullName == "~"

\* Channel lists a data segment header may hold; <<>> stands for a null segment.
SegSigNames == {<<"I">>, <<"II">>, <<"I", "II">>, <<"II", "I">>}

(***************************************************************************)
(* The state after rdheader(record_name, rd_segments=False) and the        *)
(* defaulting of sampto and channels (record.py 1930-1971): a MultiRecord  *)
(* whose data segment i has length lens[i] and channel names names[i]      *)
(* (<<>>: the segment is null, seg_name '~'), with field odd[i] changed.   *)
(* The layout is variable exactly when seg_len[0] is 0 (record.py 1794).   *)
(***************************************************************************)
\* the record line of the header when a read does not depend on it
DefaultRecordLine ==
    /\ fs = 250
    /\ counter_freq = None
    /\ base_counter = None
    /\ base_time = NoObject
    /\ base_date = NoObject
    /\ base_datetime = NoObject

\* no call of check_field is under way
NoCheckField == cf_field = "" /\ cf_item = NoObject /\ cf_required_channels = NoObject

\* no record is being written or compared
NoWrite ==
    /\ self_rec = NoObject /\ other_rec = NoObject /\ args = NoObject
    /\ calls = <<>> /\ written = <<>>

\* the MultiRecord rdheader returns and the header files of its segments
MultiHeader(lay, lens, names, odd) ==
    LET n == Len(lens)
        dataName(i) == IF names[i] = <<>> THEN NullName ELSE SegFileNames[i]
        dataFiles == {SegFileNames[i] : i \in {j \in 1..n : names[j] # <<>>}}
        fileIdx(f) == CHOOSE i \in 1..n : SegFileNames[i] = f
    IN  /\ layout = lay
        /\ dir = [f \in dataFiles \cup (IF lay = "variable" THEN {LayoutName} ELSE {}) |->
                    IF f = LayoutName
                    THEN SegHeader(LayoutName, SigNames, "", 0)
                    ELSE SegHeader(f, names[fileIdx(f)], odd[fileIdx(f)], lens[fileIdx(f)])]
        /\ seg_name = (IF lay = "variable" THEN <<LayoutName>> ELSE <<>>)
                        \o [i \in 1..n |-> dataName(i)]
        /\ seg_len = (IF lay = "variable" THEN <<0>> ELSE <<>>) \o lens
        /\ n_seg = n + (IF lay = "variable" THEN 1 ELSE 0)
        /\ n_sig = Len(SigNames)
        /\ sig_len = Sum(lens)

InitRecord(lay, lens, names, odd, sf, st, ch, ph, sm, rr, fc, m) ==
        /\ MultiHeader(lay, lens, names, odd)
        /\ segments = NoObject
        /\ DefaultRecordLine
        /\ sampfrom = sf /\ sampto = st /\ channels = ch
        /\ channel_names = <<>> /\ warn_empty = FALSE /\ ignore_skew = FALSE
        /\ physical = ph /\ smooth_frames = sm /\ return_res = rr
        /\ force_channels = fc /\ m2s = m
        /\ seg_numbers = <<>> /\ seg_ranges = <<>> /\ seg_channels = <<>>
        /\ result = NoObject
        /\ stdout = <<>>
        /\ NoCheckField
        /\ NoWrite
        /\ pc = "check_read_inputs"
        /\ err = ""

(***************************************************************************)
(* BaseRecord.check_read_inputs (record.py 383-418), for integer sampfrom  *)
(* and sampto and a list of integer channels.                              *)
(***************************************************************************)
\* mutant of DurationRangesOk: an empty range sampto = sampfrom is let through
DurationRangesOk_Empty(siglen, sf, st) ==
    /\ ~(sf < 0)
    /\ ~(sf > siglen)
    /\ ~(st < 0)
    /\ ~(st > siglen)
    /\ ~(st < sf)

DurationRangesOk(siglen, sf, st) ==
    /\ ~(sf < 0)
    /\ ~(sf > siglen)
    /\ ~(st < 0)
    /\ ~(st > siglen)
    /\ ~(st <= sf)

ChannelRangesOk(nsig, ch) ==
    Len(ch) > 0 => /\ ~(Min(Range(ch)) < 0)
                   /\ ~(Max(Range(ch)) > nsig - 1)

\* mutant of SmoothFramesOk: expanded frames are refused for every record
SmoothFramesOk_AllRecords(isMulti, sm) == ~(sm = FALSE)

\* record.py 415-418
SmoothFramesOk(isMulti, sm) == ~(isMulti /\ sm = FALSE)

\* mutant of ReturnResOk: return_res 8 is not refused for physical signals
ReturnResOk_Float8(ph, rr) == rr \in {64, 32, 16, 8}

ReturnResOk(ph, rr) ==
    /\ rr \in {64, 32, 16, 8}
    /\ ~(ph = TRUE /\ rr = 8)

\* "" when check_read_inputs returns, else the exception it raises
\* (with sig_len None, record.py 402 compares an int with None: TypeError)
check_read_inputs(siglen, nsig, isMulti, sf, st, ch, ph, sm, rr) ==
    IF siglen = NoInt /\ ~(sf < 0) THEN "TypeError"
    ELSE IF /\ DurationRangesOk(siglen, sf, st)
            /\ ChannelRangesOk(nsig, ch)
            /\ ReturnResOk(ph, rr)
            /\ SmoothFramesOk(isMulti, sm)
    THEN "" ELSE "ValueError"

\* isinstance(record, MultiRecord): rdheader returns a MultiRecord, which has a
\* layout, for a header with segments and a Record otherwise
IsMultiRecord(lay) == lay # None

\* rdrecord, record.py 1973-1975
CheckReadInputs ==
    /\ pc = "check_read_inputs"
    /\ err' = check_read_inputs(sig_len, n_sig, IsMultiRecord(layout), sampfrom, sampto,
                                channels, physical, smooth_frames, return_res)
    /\ pc' = IF err' # "" THEN "raised"
             ELSE IF Len(channels) = 0 THEN "empty"
             ELSE IF IsMultiRecord(layout) THEN "required_segments" ELSE "rd_segment"
    /\ UNCHANGED <<header, inputs, checked, writing, stdout, n_sig, sig_len, n_seg, seg_name,
                   seg_len, segments, seg_numbers, seg_ranges, seg_channels, result>>

RecordName == "record"
EmptyNotice == "None of the specified signals were contained in the record"

\* record.py 1983-1990: a new Record with the fields of the record line of
\* old_record, n_seg left out, n_sig and sig_len set to 0
EmptyRecordFields(f, cf, bc, bt, bd) ==
    [record_name  |-> RecordName,
     n_sig        |-> 0,
     fs           |-> f,
     counter_freq |-> cf,
     base_counter |-> bc,
     sig_len      |-> 0,
     base_time    |-> bt,
     base_date    |-> bd]

\* rdrecord, record.py 1981-1992: no channel is wanted
EmptyRecord ==
    /\ pc = "empty"
    /\ result' = EmptyRecordFields(fs, counter_freq, base_counter, base_time, base_date)
    /\ stdout' = IF warn_empty THEN Append(stdout, EmptyNotice) ELSE stdout
    /\ pc' = "done"
    /\ UNCHANGED <<header, inputs, checked, writing, n_sig, sig_len, n_seg, seg_name, seg_len,
                   segments, seg_numbers, seg_ranges, seg_channels, err>>

(***************************************************************************)
(* MultiRecord._required_segments (record.py 879-937).                     *)
(***************************************************************************)
\* the starting segment with actual samples, record.py 900-903
StartSeg(lay) == IF lay = "fixed" THEN 0 ELSE 1

\* [c(cs) for cs in cumsumlengths].index(True): the comparison is passed as
\* the set of cumulative sums that satisfy it
HasTrue(cumsumlengths, sat) == \E i \in 1..Len(cumsumlengths) : cumsumlengths[i] \in sat
IndexTrue(cumsumlengths, sat) ==
    (CHOOSE i \in 1..Len(cumsumlengths) :
        /\ cumsumlengths[i] \in sat
        /\ \A j \in 1..(i - 1) : cumsumlengths[j] \notin sat) - 1

\* mutant of FirstSegCond: the boundary sample is given to the segment it ends
FirstSegCond_Le(cumsumlengths, sf) == {cs \in Range(cumsumlengths) : sf <= cs}

\* record.py 908: [sampfrom < cs for cs in cumsumlengths]
FirstSegCond(cumsumlengths, sf) == {cs \in Range(cumsumlengths) : sf < cs}

\* mutant of FinalSegCond: a sampto on a boundary selects the segment after it
FinalSegCond_Lt(cumsumlengths, st) == {cs \in Range(cumsumlengths) : st < cs}

\* record.py 913: [sampto <= cs for cs in cumsumlengths]
FinalSegCond(cumsumlengths, st) == {cs \in Range(cumsumlengths) : st <= cs}

\* record.py 910-913
FinalSegIsLast(cumsumlengths, st) == st = cumsumlengths[Len(cumsumlengths)]

\* whether one of the two .index(True) calls raises ValueError
RequiredSegmentsRaises(lay, seglen, sf, st) ==
    LET cumsumlengths == CumSum(Slice(seglen, StartSeg(lay), Len(seglen)))
    IN  \/ cumsumlengths = <<>>
        \/ ~HasTrue(cumsumlengths, FirstSegCond(cumsumlengths, sf))
        \/ /\ ~FinalSegIsLast(cumsumlengths, st)
           /\ ~HasTrue(cumsumlengths, FinalSegCond(cumsumlengths, st))

\* mutant of ReadSamps: the end of the last segment is taken from cumsumlengths
\* without the leading 0
ReadSamps_NoZero(lay, seglen, sf, st, first, final) ==
    LET startseg == StartSeg(lay)
        cumsumlengths == CumSum(Slice(seglen, startseg, Len(seglen)))
        zcum == <<0>> \o cumsumlengths
    IN  IF final = first
        THEN LET segstartsamp == Sum(Slice(seglen, 0, first))
             IN  <<<<sf - segstartsamp, st - segstartsamp>>>>
        ELSE LET nums == [k \in 1..(final - first + 1) |-> first + k - 1]
                 whole == [k \in 1..Len(nums) |-> <<0, At(seglen, nums[k])>>]
                 a0 == sf - At(zcum, nums[1] - startseg)
                 bN == st - At(cumsumlengths, nums[Len(nums)] - startseg)
             IN  [k \in 1..Len(nums) |->
                    <<IF k = 1 THEN a0 ELSE whole[k][1],
                      IF k = Len(nums) THEN bN ELSE whole[k][2]>>]

\* readsamps of record.py 919-935, for the first and final segment numbers
ReadSamps(lay, seglen, sf, st, first, final) ==
    LET startseg == StartSeg(lay)
        cumsumlengths == CumSum(Slice(seglen, startseg, Len(seglen)))
        zcum == <<0>> \o cumsumlengths
    IN  IF final = first
        THEN LET segstartsamp == Sum(Slice(seglen, 0, first))
             IN  <<<<sf - segstartsamp, st - segstartsamp>>>>
        ELSE LET nums == [k \in 1..(final - first + 1) |-> first + k - 1]
                 whole == [k \in 1..Len(nums) |-> <<0, At(seglen, nums[k])>>]
                 a0 == sf - At(zcum, nums[1] - startseg)
                 bN == st - At(zcum, nums[Len(nums)] - startseg)
             IN  [k \in 1..Len(nums) |->
                    <<IF k = 1 THEN a0 ELSE whole[k][1],
                      IF k = Len(nums) THEN bN ELSE whole[k][2]>>]

\* the pair (seg_numbers, readsamps) the method returns
required_segments(lay, seglen, sf, st) ==
    LET startseg == StartSeg(lay)
        cumsumlengths == CumSum(Slice(seglen, startseg, Len(seglen)))
        first == IndexTrue(cumsumlengths, FirstSegCond(cumsumlengths, sf)) + startseg
        final == (IF FinalSegIsLast(cumsumlengths, st)
                  THEN Len(cumsumlengths) - 1
                  ELSE IndexTrue(cumsumlengths, FinalSegCond(cumsumlengths, st))) + startseg
    IN  [seg_numbers |-> IF final = first THEN <<first>>
                         ELSE [k \in 1..(final - first + 1) |-> first + k - 1],
         readsamps   |-> ReadSamps(lay, seglen, sf, st, first, final)]

(***************************************************************************)
(* _get_wanted_channels (record.py 2332-2357).  With pad, an entry is      *)
(* <<index>> or <<>> for None.                                             *)
(***************************************************************************)
RECURSIVE SelectSeq2(_, _)
SelectSeq2(l, S) ==
    IF l = <<>> THEN <<>>
    ELSE (IF l[1] \in S THEN <<l[1]>> ELSE <<>>) \o SelectSeq2(Tail(l), S)

get_wanted_channels(wanted_sig_names, record_sig_names) ==
    LET present == SelectSeq2(wanted_sig_names, Range(record_sig_names))
    IN  [i \in 1..Len(present) |-> Index(record_sig_names, present[i])]

\* mutant of get_wanted_channels_pad: index 0 is taken for "not found"
get_wanted_channels_pad_Falsy(wanted_sig_names, record_sig_names) ==
    [i \in 1..Len(wanted_sig_names) |->
        IF /\ Contains(record_sig_names, wanted_sig_names[i])
           /\ Index(record_sig_names, wanted_sig_names[i]) # 0
        THEN <<Index(record_sig_names, wanted_sig_names[i])>>
        ELSE <<>>]

get_wanted_channels_pad(wanted_sig_names, record_sig_names) ==
    [i \in 1..Len(wanted_sig_names) |->
        IF Contains(record_sig_names, wanted_sig_names[i])
        THEN <<Index(record_sig_names, wanted_sig_names[i])>>
        ELSE <<>>]

(***************************************************************************)
(* MultiRecord._required_channels (record.py 940-992).  rdheader of a      *)
(* segment is a lookup in dir.                                             *)
(***************************************************************************)
required_channels(lay, segs, segname, files, segnumbers, ch) ==
    IF lay = "fixed"
    THEN [i \in 1..Len(segnumbers) |-> ch]
    ELSE LET l_sig_names == segs[1].sig_name
             w_sig_names == [c \in 1..Len(ch) |-> At(l_sig_names, ch[c])]
         IN  [i \in 1..Len(segnumbers) |->
                IF At(segname, segnumbers[i]) = NullName
                THEN <<>>
                ELSE get_wanted_channels(w_sig_names,
                                         files[At(segname, segnumbers[i])].sig_name)]

\* rdrecord, record.py 2094-2106
RequiredSegments ==
    /\ pc = "required_segments"
    /\ segments' = [i \in 1..n_seg |->
                      IF i = 1 /\ layout = "variable" THEN dir[seg_name[1]] ELSE NoObject]
    /\ IF RequiredSegmentsRaises(layout, seg_len, sampfrom, sampto)
       THEN /\ pc' = "raised"
            /\ err' = "ValueError"
            /\ UNCHANGED <<seg_numbers, seg_ranges, seg_channels>>
       ELSE LET rs == required_segments(layout, seg_len, sampfrom, sampto)
            IN  /\ seg_numbers' = rs.seg_numbers
                /\ seg_ranges' = rs.readsamps
                /\ seg_channels' = required_channels(layout, segments', seg_name, dir,
                                                     rs.seg_numbers, channels)
                /\ pc' = "read_segments"
                /\ err' = ""
    /\ UNCHANGED <<header, inputs, checked, writing, stdout, n_sig, sig_len, n_seg, seg_name,
                   seg_len, result>>

(***************************************************************************)
(* The recursive rdrecord of one data segment (record.py 2115-2119), a     *)
(* single-segment read: check_read_inputs, _rd_segment into d_signal,      *)
(* Record._arrange_fields (record.py 667-717), and dac when physical.      *)
(* smooth_frames is not passed on and has its default, True.               *)
(***************************************************************************)
Sample(kind, seg, row, ch) == <<kind, seg, row, ch>>

\* mutant of Rearrange: the first len(channels) entries, in the order of the header
Rearrange_HeaderOrder(item, ch) == [i \in 1..Len(ch) |-> item[i]]

\* Record._arrange_fields, record.py 686-689: [item[c] for c in channels]
Rearrange(item, ch) == [i \in 1..Len(ch) |-> At(item, ch[i])]

rdrecord_segment_raises(h, a, b, ch, ph, rr) ==
    check_read_inputs(h.sig_len, h.n_sig, FALSE, a, b, ch, ph, TRUE, rr) # ""

\* _signal._rd_segment: the frames a channel is read from start skew frames
\* later than those asked for, unless ignore_skew is set
Skew(h, c, ig) == IF ig THEN 0 ELSE At(h.skew, c)

\* record.py 1822: ignore_skew=False, in effect where a call leaves it out
DefaultIgnoreSkew == FALSE

rdrecord_segment(h, a, b, ch, ph, ig) ==
    LET sig == [r \in 1..(b - a) |->
                  [c \in 1..Len(ch) |->
                      Sample(IF ph THEN "p" ELSE "d", h.record_name,
                             a + r - 1 + Skew(h, ch[c], ig), ch[c])]]
    IN  [record_name |-> h.record_name,
         n_sig       |-> Len(ch),
         sig_len     |-> b - a,
         sig_name    |-> Rearrange(h.sig_name, ch),
         fmt         |-> Rearrange(h.fmt, ch),
         adc_gain    |-> Rearrange(h.adc_gain, ch),
         baseline    |-> Rearrange(h.baseline, ch),
         units       |-> Rearrange(h.units, ch),
         p_signal    |-> IF ph THEN sig ELSE NoObject,
         d_signal    |-> IF ph THEN NoObject ELSE sig]

\* record.py 2112: empty segment or segment with no relevant channels
SkipSegment(segname, segchannels) == segname = NullName \/ Len(segchannels) = 0

\* rdrecord, record.py 2108-2119
ReadSegments ==
    /\ pc = "read_segments"
    /\ LET toRead == {i \in 1..Len(seg_numbers) :
                        ~SkipSegment(At(seg_name, seg_numbers[i]), seg_channels[i])}
           hdr(i) == dir[At(seg_name, seg_numbers[i])]
           raises == \E i \in toRead :
                        rdrecord_segment_raises(hdr(i), seg_ranges[i][1], seg_ranges[i][2],
                                                seg_channels[i], physical, return_res)
           pos(k) == CHOOSE i \in 1..Len(seg_numbers) : seg_numbers[i] = k - 1
       IN  IF raises
           THEN /\ pc' = "raised"
                /\ err' = "ValueError"
                /\ UNCHANGED segments
           ELSE /\ segments' =
                     [k \in 1..Len(segments) |->
                        IF k - 1 \in Range(seg_numbers)
                        THEN IF pos(k) \in toRead
                             THEN rdrecord_segment(hdr(pos(k)), seg_ranges[pos(k)][1],
                                                   seg_ranges[pos(k)][2],
                                                   seg_channels[pos(k)], physical,
                                                   DefaultIgnoreSkew)
                             ELSE NoObject
                        ELSE segments[k]]
                /\ pc' = "arrange_fields"
                /\ err' = ""
    /\ UNCHANGED <<header, inputs, checked, writing, stdout, n_sig, sig_len, n_seg, seg_name,
                   seg_len, seg_numbers, seg_ranges, seg_channels, result>>

(***************************************************************************)
(* MultiRecord._arrange_fields (record.py 995-1070).  The date and time    *)
(* fields that _adjust_datetime moves are not part of this model.          *)
(***************************************************************************)
\* mutant of UpdatedSegLen: the end of the range is stored, not its length
UpdatedSegLen_End(seglen, segnumbers, segranges) ==
    [k \in 1..Len(seglen) |->
        IF k - 1 \in Range(segnumbers)
        THEN LET i == CHOOSE j \in 1..Len(segnumbers) : segnumbers[j] = k - 1
             IN  segranges[i][2]
        ELSE seglen[k]]

\* record.py 1025-1026: seg_len of the segments read
UpdatedSegLen(seglen, segnumbers, segranges) ==
    [k \in 1..Len(seglen) |->
        IF k - 1 \in Range(segnumbers)
        THEN LET i == CHOOSE j \in 1..Len(segnumbers) : segnumbers[j] = k - 1
             IN  segranges[i][2] - segranges[i][1]
        ELSE seglen[k]]

\* record.py 1030-1038: keep the segments read (and the layout segment)
KeepSegments(lay, l, segnumbers) ==
    IF lay = "fixed"
    THEN Slice(l, segnumbers[1], segnumbers[Len(segnumbers)] + 1)
    ELSE <<l[1]>> \o Slice(l, segnumbers[1], segnumbers[Len(segnumbers)] + 1)

\* record.py 1064-1065
NoSignalsNotice ==
    "No signals of the desired channels are contained in the specified sample range."

\* mutant of LayoutChannels: the requested channels, whatever the segments hold
LayoutChannels_AsRequested(segs, ch, fc) == ch

\* record.py 1047-1056: the channels of the layout segment to keep
LayoutChannels(segs, ch, fc) ==
    IF fc THEN ch
    ELSE LET desired_sig_names == [c \in 1..Len(ch) |-> At(segs[1].sig_name, ch[c])]
             contained_sig_names ==
                 UNION {Range(segs[k].sig_name) :
                          k \in {j \in 2..Len(segs) : segs[j] # NoObject}}
             sig_name == SelectSeq2(desired_sig_names, contained_sig_names)
         IN  [i \in 1..Len(sig_name) |-> Index(segs[1].sig_name, sig_name[i])]

\* record.py 1059-1063: the layout segment with its fields rearranged
ArrangedLayout(seg0, ch) ==
    [seg0 EXCEPT !.sig_name = Rearrange(seg0.sig_name, ch),
                 !.fmt      = Rearrange(seg0.fmt, ch),
                 !.adc_gain = Rearrange(seg0.adc_gain, ch),
                 !.baseline = Rearrange(seg0.baseline, ch),
                 !.units    = Rearrange(seg0.units, ch),
                 !.n_sig    = Len(ch)]

\* record.py 1068
ReadLength(segranges) == Sum([i \in 1..Len(segranges) |-> segranges[i][2] - segranges[i][1]])

(***************************************************************************)
(* BaseRecord._adjust_datetime (record.py 421-452) with the arithmetic of  *)
(* Python's datetime module that it calls.                                 *)
(***************************************************************************)
\* round(a / b), halves to the even neighbour, for a >= 0 and b > 0
RoundHalfEven(a, b) ==
    LET q == a \div b
        r == a % b
    IN  IF 2 * r < b THEN q
        ELSE IF 2 * r > b THEN q + 1
        ELSE IF q % 2 = 0 THEN q ELSE q + 1

\* datetime.timedelta(days, seconds, microseconds), normalised to
\* 0 <= seconds < 86400 and 0 <= microseconds < 1000000
timedelta(days, seconds, microseconds) ==
    LET s == seconds + microseconds \div 1000000
    IN  <<days + s \div 86400, s % 86400, microseconds % 1000000>>

\* record.py 439 and 443: datetime.timedelta(seconds=sampfrom / fs); the
\* fraction of a second of the float is rounded to a whole microsecond
dt_seconds(sf, f) ==
    timedelta(0, sf \div f, RoundHalfEven((sf % f) * 1000000, f))

is_leap(y) == y % 4 = 0 /\ (y % 100 # 0 \/ y % 400 = 0)

DAYS_IN_MONTH == <<31, 28, 31, 30, 31, 30, 31, 31, 30, 31, 30, 31>>

days_before_year(y) ==
    LET p == y - 1 IN p * 365 + p \div 4 - p \div 100 + p \div 400

days_before_month(y, m) ==
    Sum([k \in 1..(m - 1) |-> DAYS_IN_MONTH[k]]) + (IF m > 2 /\ is_leap(y) THEN 1 ELSE 0)

\* date.toordinal()
ymd2ord(d) == days_before_year(d[1]) + days_before_month(d[1], d[2]) + d[3]

\* date.fromordinal(n): the 400-, 100-, 4- and 1-year cycles before day n
ord2ymd(ordinal) ==
    LET n0   == ordinal - 1
        n400 == n0 \div 146097
        r400 == n0 % 146097
        n100 == r400 \div 36524
        r100 == r400 % 36524
        n4   == r100 \div 1461
        r4   == r100 % 1461
        n1   == r4 \div 365
        n    == r4 % 365
        year == n400 * 400 + 1 + n100 * 100 + n4 * 4 + n1
        leapyear == n1 = 3 /\ (n4 # 24 \/ n100 = 3)
        guess == (n + 50) \div 32
        before(m) == Sum([k \in 1..(m - 1) |-> DAYS_IN_MONTH[k]])
                        + (IF m > 2 /\ leapyear THEN 1 ELSE 0)
        month == IF before(guess) > n THEN guess - 1 ELSE guess
    IN  IF n1 = 4 \/ n100 = 4 THEN <<year - 1, 12, 31>>
        ELSE <<year, month, n - before(month) + 1>>

\* datetime.datetime.__add__: date d and time t plus the timedelta delta
datetime_add_SameDay(d, t, delta) ==
    LET sum == timedelta(delta[1],
                         t[1] * 3600 + t[2] * 60 + t[3] + delta[2],
                         t[4] + delta[3])
    IN  <<d, <<sum[2] \div 3600, (sum[2] % 3600) \div 60, sum[2] % 60, sum[3]>>>>
datetime_add(d, t, delta) ==
    LET sum == timedelta(ymd2ord(d) + delta[1],
                         t[1] * 3600 + t[2] * 60 + t[3] + delta[2],
                         t[4] + delta[3])
    IN  <<ord2ymd(sum[1]),
          <<sum[2] \div 3600, (sum[2] % 3600) \div 60, sum[2] % 60, sum[3]>>>>

\* datetime.datetime.today().date(), whatever the day of the read
Today == <<2026, 11, 1>>

\* _adjust_datetime(sampfrom) on a record with the given fs, base_date,
\* base_time and base_datetime: the three attributes after the call
adjust_datetime(sf, f, bd, bt, bdt) ==
    IF sf # 0
    THEN IF bd # NoObject /\ bt # NoObject
         THEN LET dt == datetime_add(bd, bt, dt_seconds(sf, f))
              IN  [base_date |-> dt[1], base_time |-> dt[2], base_datetime |-> dt]
         ELSE IF bt # NoObject
         THEN [base_date |-> bd,
               base_time |-> datetime_add(Today, bt, dt_seconds(sf, f))[2],
               base_datetime |-> bdt]
         ELSE [base_date |-> bd, base_time |-> bt, base_datetime |-> bdt]
    ELSE [base_date |-> bd, base_time |-> bt, base_datetime |-> bdt]

\* the call of _adjust_datetime that ends _arrange_fields (record.py 720, 1070)
AdjustedDatetime ==
    LET a == adjust_datetime(sampfrom, fs, base_date, base_time, base_datetime)
    IN  /\ base_date' = a.base_date
        /\ base_time' = a.base_time
        /\ base_datetime' = a.base_datetime

\* a call of _adjust_datetime
AdjustDatetime ==
    /\ pc = "adjust_datetime"
    /\ AdjustedDatetime
    /\ pc' = "done"
    /\ UNCHANGED <<record_line, inputs, checked, writing, stdout, n_sig, sig_len, n_seg, seg_name,
                   seg_len, segments, seg_numbers, seg_ranges, seg_channels, result, err>>

\* rdrecord, record.py 2123-2125
ArrangeFields ==
    /\ pc = "arrange_fields"
    /\ LET kept == KeepSegments(layout, segments, seg_numbers)
           keep == LayoutChannels(kept, channels, force_channels)
       IN  /\ seg_len' = KeepSegments(layout,
                                      UpdatedSegLen(seg_len, seg_numbers, seg_ranges),
                                      seg_numbers)
           /\ seg_name' = KeepSegments(layout, seg_name, seg_numbers)
           /\ segments' = IF layout = "fixed" THEN kept
                          ELSE [kept EXCEPT ![1] = ArrangedLayout(kept[1], keep)]
           /\ n_sig' = IF layout = "fixed" THEN Len(channels) ELSE Len(keep)
           /\ sig_len' = ReadLength(seg_ranges)
           /\ n_seg' = Len(segments')
           /\ stdout' = IF layout # "fixed" /\ Len(keep) = 0
                         THEN Append(stdout, NoSignalsNotice) ELSE stdout
    /\ AdjustedDatetime
    /\ pc' = IF m2s THEN "multi_to_single" ELSE "done"
    /\ UNCHANGED <<record_line, inputs, checked, writing, seg_numbers, seg_ranges,
                   seg_channels, result, err>>

(***************************************************************************)
(* MultiRecord.multi_to_single (record.py 1073-1210).                      *)
(***************************************************************************)
NaN == <<"nan", "", 0, 0>>

\* _signal._digi_nan: the digital code that stores NaN in format fmt
digi_nan(fmt) == <<"digi_nan", fmt, 0, 0>>

FieldOf(seg, field) ==
    CASE field = "fmt"      -> seg.fmt
      [] field = "adc_gain" -> seg.adc_gain
      [] field = "baseline" -> seg.baseline
      [] field = "units"    -> seg.units

\* record.py 1131-1136: the (segment, channel) pairs in the order of the loops
RECURSIVE SegmentChannelPairs(_, _)
SegmentChannelPairs(segs, k) ==
    IF k > Len(segs) THEN <<>>
    ELSE (IF segs[k] = NoObject THEN <<>>
          ELSE [c \in 1..segs[k].n_sig |-> <<k, c>>]) \o SegmentChannelPairs(segs, k + 1)

\* mutant of MismatchCase: units are not compared (as the docstring has it)
MismatchCase_NoUnits(reference_fields, seg, seg_ch, ch) ==
    {field \in SpecFields \ {"units"} :
        /\ reference_fields[field][ch] # None
        /\ reference_fields[field][ch] # FieldOf(seg, field)[seg_ch]}

\* record.py 1141-1150: the fields of channel seg_ch of seg that differ from
\* the reference entry of overall channel ch
MismatchCase(reference_fields, seg, seg_ch, ch) ==
    {field \in SpecFields :
        /\ reference_fields[field][ch] # None
        /\ reference_fields[field][ch] # FieldOf(seg, field)[seg_ch]}

\* record.py 1131-1150 from pair number p on: the reference fields, the
\* mismatched fields and whether the exception of line 1150 was raised
RECURSIVE ScanSegments(_, _, _, _, _, _)
ScanSegments(segs, signal_names, pairs, p, acc, ph) ==
    IF p > Len(pairs) \/ acc.raised THEN acc
    ELSE LET seg == segs[pairs[p][1]]
             seg_ch == pairs[p][2]
             ch == Index(signal_names, seg.sig_name[seg_ch]) + 1
             mism == MismatchCase(acc.reference_fields, seg, seg_ch, ch)
             ref == [field \in SpecFields |->
                       IF acc.reference_fields[field][ch] = None
                       THEN [acc.reference_fields[field] EXCEPT
                               ![ch] = FieldOf(seg, field)[seg_ch]]
                       ELSE acc.reference_fields[field]]
         IN  ScanSegments(segs, signal_names, pairs, p + 1,
                          [reference_fields  |-> ref,
                           mismatched_fields |-> acc.mismatched_fields \cup mism,
                           raised            |-> ~ph /\ mism # {}],
                          ph)

\* record.py 1119-1150
ReferenceScan(segs, ph) ==
    LET signal_names == segs[1].sig_name
    IN  ScanSegments(segs, signal_names, SegmentChannelPairs(segs, 2), 1,
                     [reference_fields  |-> [field \in SpecFields |->
                                               [c \in 1..Len(signal_names) |-> None]],
                      mismatched_fields |-> {},
                      raised            |-> FALSE],
                     ph)

\* mutant of CopiedFields: the mismatched fields are not removed
CopiedFields_All(scan) == SpecFields

\* record.py 1151-1155: the reference fields that are copied over
CopiedFields(scan) == SpecFields \ scan.mismatched_fields

\* record.py 1102-1105 and 1181-1182: a fixed-layout record reads attributes
\* of every segment, which fails on None
FixedLayoutRaises(segs) == \E k \in 1..Len(segs) : segs[k] = NoObject

\* record.py 1159-1171: one row of fill values
FillRow(ph, nsig, fmt) ==
    IF ph THEN [c \in 1..nsig |-> NaN]
    ELSE [c \in 1..Len(fmt) |-> digi_nan(fmt[c])]

SigAttr(seg, ph) == IF ph THEN seg.p_signal ELSE seg.d_signal

\* record.py 1175-1196: the cell of row r (from 1) and column c (from 1)
CombinedCell(lay, segs, seglen, names, fill, ph, r, c) ==
    LET end_samps == CumSum(seglen)
        start_samps == <<0>> \o SubSeq(end_samps, 1, Len(end_samps) - 1)
        first == IF lay = "fixed" THEN 1 ELSE 2
        hit == {i \in first..Len(segs) : start_samps[i] < r /\ r <= end_samps[i]}
    IN  IF hit = {} THEN fill[c]
        ELSE LET i == CHOOSE j \in hit : TRUE
             IN  IF lay = "fixed"
                 THEN SigAttr(segs[i], ph)[r - start_samps[i]][c]
                 ELSE IF segs[i] = NoObject THEN fill[c]
                 ELSE LET segment_channels ==
                              get_wanted_channels_pad(names, segs[i].sig_name)
                      IN  IF segment_channels[c] = <<>> THEN fill[c]
                          ELSE SigAttr(segs[i], ph)[r - start_samps[i]]
                                                   [segment_channels[c][1] + 1]

combined_signal(lay, segs, seglen, siglen, nsig, names, fill, ph) ==
    [r \in 1..siglen |->
        [c \in 1..nsig |-> CombinedCell(lay, segs, seglen, names, fill, ph, r, c)]]

\* the exception multi_to_single raises, "" when it returns a Record
multi_to_single_raises(lay, segs, ph) ==
    IF lay = "fixed"
    THEN IF FixedLayoutRaises(segs) THEN "AttributeError" ELSE ""
    ELSE IF ReferenceScan(segs, ph).raised THEN "Exception" ELSE ""

\* the Record multi_to_single returns: a field left out of the domain is unset
multi_to_single(lay, segs, seglen, siglen, nsig, ph) ==
    LET scan == ReferenceScan(segs, ph)
        names == segs[1].sig_name
        copied == IF lay = "fixed" THEN SpecFields ELSE CopiedFields(scan)
        spec == [field \in copied |->
                    IF lay = "fixed" THEN FieldOf(segs[1], field)
                    ELSE scan.reference_fields[field]]
        fill == FillRow(ph, nsig, IF ph THEN <<>> ELSE spec["fmt"])
        sig == combined_signal(lay, segs, seglen, siglen, nsig, names, fill, ph)
    IN  [record_name |-> "record",
         layout      |-> lay,
         n_sig       |-> nsig,
         sig_len     |-> siglen,
         sig_name    |-> names,
         p_signal    |-> IF ph THEN sig ELSE NoObject,
         d_signal    |-> IF ph THEN NoObject ELSE sig] @@ spec

\* rdrecord, record.py 2128-2130
MultiToSingle ==
    /\ pc = "multi_to_single"
    /\ err' = multi_to_single_raises(layout, segments, physical)
    /\ IF err' # ""
       THEN /\ pc' = "raised"
            /\ UNCHANGED result
       ELSE /\ pc' = "done"
            /\ result' = multi_to_single(layout, segments, seg_len, sig_len, n_sig,
                                         physical)
    /\ UNCHANGED <<header, inputs, checked, writing, stdout, n_sig, sig_len, n_seg, seg_name,
                   seg_len, segments, seg_numbers, seg_ranges, seg_channels>>

(***************************************************************************)
(* rdrecord from its first line: the choice of the channels (record.py     *)
(* 1947-1971) and the read of a single-segment record (record.py           *)
(* 1995-2077).  Until the channels are chosen, `channels` holds the        *)
(* optional argument: <<>> for None, <<l>> for the list l.                 *)
(***************************************************************************)
\* the init_value and checksum fields of the signal lines of a header file;
\* they need not agree with the dat file
DeclaredChecks(n) ==
    [init_value |-> [i \in 1..n |-> 900 + i],
     checksum   |-> [i \in 1..n |-> 40000 + i]]

\* the header file of a single-segment record
RecordHeader(spf, len) ==
    [samps_per_frame |-> spf] @@ DeclaredChecks(Len(SigNames))
        @@ SegHeader(RecordName, SigNames, "", len)

\* _signal._infer_sig_len: the number of frames the dat file holds
infer_sig_len(h) == h.dat_len

\* rdrecord, record.py 1932-1945: the defaults of sampto and, with it, of a
\* signal length the header does not state
DefaultSampto ==
    /\ pc = "sampto"
    /\ sig_len' = IF sampto = NoInt /\ sig_len = NoInt
                  THEN (IF n_sig = 0 THEN 0 ELSE infer_sig_len(dir[RecordName]))
                  ELSE sig_len
    /\ sampto' = IF sampto = NoInt THEN sig_len' ELSE sampto
    /\ pc' = "channel_names"
    /\ UNCHANGED <<header, checked, writing, stdout, sampfrom, channels, channel_names,
                   warn_empty, ignore_skew, physical, smooth_frames, return_res,
                   force_channels, m2s, n_sig, n_seg, seg_name, seg_len, segments,
                   seg_numbers, seg_ranges, seg_channels, result, err>>

\* record.py 1950-1965: the header whose sig_name the names are looked up in
ReferenceName(lay, segname) == IF IsMultiRecord(lay) THEN segname[1] ELSE RecordName

\* the exception of record.py 1956-1965, "" when none: the list of the
\* non-empty segment names is indexed, and the header of seg_name[0] is read
ReferenceRaises(lay, segname, files) ==
    IF lay = "fixed" /\ \A i \in 1..Len(segname) : segname[i] = NullName
    THEN "IndexError"
    ELSE IF ReferenceName(lay, segname) \notin DOMAIN files
    THEN "FileNotFoundError"
    ELSE ""

\* rdrecord, record.py 1947-1971
ResolveChannels ==
    /\ pc = "channel_names"
    /\ err' = IF channel_names # <<>> THEN ReferenceRaises(layout, seg_name, dir) ELSE ""
    /\ IF err' # ""
       THEN /\ pc' = "raised"
            /\ UNCHANGED channels
       ELSE /\ pc' = "check_read_inputs"
            /\ channels' =
                  IF channel_names # <<>>
                  THEN get_wanted_channels(channel_names[1],
                                           dir[ReferenceName(layout, seg_name)].sig_name)
                  ELSE IF channels = <<>> THEN [i \in 1..n_sig |-> i - 1]
                  ELSE channels[1]
    /\ UNCHANGED <<header, checked, writing, stdout, sampfrom, sampto, channel_names, warn_empty,
                   ignore_skew, physical, smooth_frames, return_res, force_channels, m2s,
                   n_sig, sig_len, n_seg, seg_name, seg_len, segments,
                   seg_numbers, seg_ranges, seg_channels, result>>

\* record.py 1998: one sample per frame, or the frames are smoothed
UniformRead(h, ch, sm) ==
    sm \/ Max({At(h.samps_per_frame, ch[c]) : c \in 1..Len(ch)}) = 1

\* record.py 2057-2077: every sample of every frame, one array per channel
ExpandedSignal(h, a, b, ch, ph, ig) ==
    [c \in 1..Len(ch) |->
        [k \in 1..((b - a) * At(h.samps_per_frame, ch[c])) |->
            Sample(IF ph THEN "ep" ELSE "ed", h.record_name,
                   (a + Skew(h, ch[c], ig)) * At(h.samps_per_frame, ch[c]) + k - 1,
                   ch[c])]]

\* the digital value the dat file holds at a position: large in channel 0,
\* negative in the other channels
DigitalValue(s) == IF s[4] = 0 THEN 30000 + s[3] ELSE -(100 * s[4] + s[3])

\* SignalMixin.calc_checksum: the sum of the samples of each channel modulo
\* 65536, over the columns of d_signal or over the arrays of e_d_signal
calc_checksum(sig, expanded) ==
    IF expanded
    THEN [c \in 1..Len(sig) |->
             Sum([k \in 1..Len(sig[c]) |-> DigitalValue(sig[c][k])]) % 65536]
    ELSE [c \in 1..Len(sig[1]) |->
             Sum([r \in 1..Len(sig) |-> DigitalValue(sig[r][c])]) % 65536]

\* mutant of arrange_checks: sig_len is set to the frames read before it is
\* compared with them
arrange_checks_LengthFirst(h, ch, sig, expanded) ==
    LET spf     == Rearrange(h.samps_per_frame, ch)
        frames  == IF expanded THEN Len(sig[1]) \div spf[1] ELSE Len(sig)
        updated == [h EXCEPT !.sig_len = frames]
        partial == updated.sig_len # frames
    IN  [checksum   |-> IF partial THEN calc_checksum(sig, expanded)
                        ELSE Rearrange(h.checksum, ch),
         init_value |-> IF partial
                        THEN [c \in 1..Len(ch) |->
                                 DigitalValue(IF expanded THEN sig[c][1] ELSE sig[1][c])]
                        ELSE Rearrange(h.init_value, ch)]

\* Record._arrange_fields, record.py 686-717, for checksum and init_value:
\* both are rearranged (687-689), then set from the digital signal read when
\* self.sig_len, still that of the header, is not the number of frames read
\* (695-697, 706-712); n_sig and sig_len are set after that (699-700, 716-717)
arrange_checks(h, ch, sig, expanded) ==
    LET spf     == Rearrange(h.samps_per_frame, ch)
        frames  == IF expanded THEN Len(sig[1]) \div spf[1] ELSE Len(sig)
        partial == h.sig_len # frames
    IN  [checksum   |-> IF partial THEN calc_checksum(sig, expanded)
                        ELSE Rearrange(h.checksum, ch),
         init_value |-> IF partial
                        THEN [c \in 1..Len(ch) |->
                                 DigitalValue(IF expanded THEN sig[c][1] ELSE sig[1][c])]
                        ELSE Rearrange(h.init_value, ch)]

\* the Record a single-segment read returns, record.py 1998-2077 with
\* Record._arrange_fields (record.py 686-717); the signal is read as digital
\* samples, arranged, and converted by dac when physical
rdrecord_single(h, a, b, ch, ph, sm, ig) ==
    IF UniformRead(h, ch, sm)
    THEN [samps_per_frame |-> Rearrange(h.samps_per_frame, ch),
          e_p_signal      |-> NoObject,
          e_d_signal      |-> NoObject]
            @@ arrange_checks(h, ch, rdrecord_segment(h, a, b, ch, FALSE, ig).d_signal, FALSE)
            @@ rdrecord_segment(h, a, b, ch, ph, ig)
    ELSE LET sig == ExpandedSignal(h, a, b, ch, ph, ig)
             spf == Rearrange(h.samps_per_frame, ch)
         IN  arrange_checks(h, ch, ExpandedSignal(h, a, b, ch, FALSE, ig), TRUE) @@
             [record_name     |-> h.record_name,
              n_sig           |-> Len(ch),
              sig_len         |-> Len(sig[1]) \div spf[1],
              sig_name        |-> Rearrange(h.sig_name, ch),
              fmt             |-> Rearrange(h.fmt, ch),
              adc_gain        |-> Rearrange(h.adc_gain, ch),
              baseline        |-> Rearrange(h.baseline, ch),
              units           |-> Rearrange(h.units, ch),
              samps_per_frame |-> spf,
              p_signal        |-> NoObject,
              d_signal        |-> NoObject,
              e_p_signal      |-> IF ph THEN sig ELSE NoObject,
              e_d_signal      |-> IF ph THEN NoObject ELSE sig]

\* rdrecord, record.py 1995-2077: the record read is the record returned
ReadSingle ==
    /\ pc = "rd_segment"
    /\ result' = rdrecord_single([dir[RecordName] EXCEPT !.sig_len = sig_len], sampfrom,
                                 sampto, channels, physical, smooth_frames, ignore_skew)
    /\ n_sig' = result'.n_sig
    /\ sig_len' = result'.sig_len
    /\ AdjustedDatetime
    /\ pc' = "done"
    /\ UNCHANGED <<record_line, inputs, checked, writing, stdout, n_seg, seg_name, seg_len, segments,
                   seg_numbers, seg_ranges, seg_channels, err>>

(***************************************************************************)
(* BaseRecord.check_field (record.py 191-342) with _check_item_type        *)
(* (record.py 1255-1310) and is_monotonic (record.py 2477-2505).  Here a   *)
(* Python value is the tuple <<type, hi, lo, seq>>: a number is            *)
(* hi * Limb + lo with 0 <= lo < Limb (a float is held in tenths), a str   *)
(* has its characters in seq and a list has its elements in seq.           *)
(***************************************************************************)
Limb == 2^16

PyNone == <<"NoneType", 0, 0, <<>>>>
PyBigInt(hi, lo) == <<"int", hi, lo, <<>>>>
PyInt(n) == PyBigInt(n \div Limb, n % Limb)
PyFloat(tenths) == <<"float", tenths \div Limb, tenths % Limb, <<>>>>
PyStr(chars) == <<"str", 0, 0, chars>>
PyList(elems) == <<"list", 0, 0, elems>>

TypeOf(v) == v[1]
Elems(v) == v[4]

\* a < b and a <= b for two numbers
NumLess(a, b) == a[2] < b[2] \/ (a[2] = b[2] /\ a[3] < b[3])
NumLeq(a, b) == ~NumLess(b, a)

\* the characters \w, [-\w] and \s of the strings of the model
WordChars == {"a", "b", "d", "r", "m", "V", "I", "1", "2", "6", "9", "_"}
DashWordChars == WordChars \cup {"-"}
SpaceChars == {" ", "\t", "\n"}

\* re.search('\s', s)
HasWhitespace(s) == \E i \in 1..Len(s) : s[i] \in SpaceChars

\* re.match('[-\w]+', s): the pattern matches at the start of s
NameMatch(s) == Len(s) >= 1 /\ s[1] \in DashWordChars

\* re.match('[-\w]+\.?[\w]+', s): the pattern matches at the start of s
FileNameMatch(s) ==
    \E i \in 1..Len(s) :
        /\ \A j \in 1..i : s[j] \in DashWordChars
        /\ \/ i + 1 <= Len(s) /\ s[i + 1] \in WordChars
           \/ i + 2 <= Len(s) /\ s[i + 1] = "." /\ s[i + 2] \in WordChars

\* record.py 246, 281, 328: accepted_string.string is the string that was
\* given to re.match, so it never differs from it
MatchStringDiffers(s) == s # s

\* _header.SIGNAL_SPECS.index and the fields of _header.RECORD_SPECS.index
\* that hold a number or a string
SignalSpecs == {"file_name", "fmt", "samps_per_frame", "skew", "byte_offset",
                "adc_gain", "baseline", "units", "adc_res", "adc_zero",
                "init_value", "checksum", "block_size", "sig_name"}
RecordSpecs == {"record_name", "n_seg", "n_sig", "fs", "counter_freq",
                "base_counter", "sig_len"}

\* record.py 1225-1226, for the fields above
ListFields == SignalSpecs

\* record.py 1218: _header.FIELD_SPECS.loc[field, 'allowed_types']
AllowedTypes(f) ==
    CASE f \in {"record_name", "file_name", "fmt", "units", "sig_name", "seg_name"} ->
            {"str"}
      [] f \in {"fs", "counter_freq", "base_counter", "adc_gain"} -> {"int", "float"}
      [] OTHER -> {"int"}

\* _signal.DAT_FMTS
DAT_FMTS == {<<"8", "0">>, <<"2", "1", "2">>, <<"1", "6">>, <<"2", "4">>, <<"3", "2">>}

\* the channels that must be present: 'all' is <<>>, the list l is <<l>>
RequiredSet(required, n) ==
    IF required = <<>> THEN 0..(n - 1) ELSE Range(required[1])

\* _check_item_type, record.py 1289-1310: "" or the exception raised
check_item_type(v, allowed_types, expect_list, required) ==
    IF expect_list
    THEN IF TypeOf(v) # "list" THEN "TypeError"
         ELSE IF \E ch \in 0..(Len(Elems(v)) - 1) :
                    TypeOf(At(Elems(v), ch)) \notin
                        (IF ch \in RequiredSet(required, Len(Elems(v)))
                         THEN allowed_types
                         ELSE allowed_types \cup {"NoneType"})
         THEN "TypeError"
         ELSE ""
    ELSE IF TypeOf(v) \notin allowed_types THEN "TypeError" ELSE ""

\* is_monotonic, record.py 2499-2505: the loop from position i on
RECURSIVE MonotonicLoop(_, _, _, _)
MonotonicLoop(full_list, i, prev_item, prev_elements) ==
    IF i > Len(full_list) THEN TRUE
    ELSE IF full_list[i] # prev_item
    THEN IF full_list[i] \in prev_elements THEN FALSE
         ELSE MonotonicLoop(full_list, i + 1, full_list[i],
                            prev_elements \cup {full_list[i]})
    ELSE MonotonicLoop(full_list, i + 1, prev_item, prev_elements)

\* record.py 2496: full_list[0] of an empty list is an IndexError
is_monotonic_raises(full_list) == Len(full_list) = 0

\* mutant of is_monotonic: the first element is not put in prev_elements
is_monotonic_NoFirst(full_list) ==
    MonotonicLoop(full_list, 1, full_list[1], {})

\* is_monotonic, record.py 2477-2505, for a list that is not empty
is_monotonic(full_list) ==
    MonotonicLoop(full_list, 1, full_list[1], {full_list[1]})

Zero == PyBigInt(0, 0)
One == PyBigInt(0, 1)

\* mutant of AdcGainRaises: a gain of zero is let through
AdcGainRaises_Negative(v) == NumLess(v, Zero)

\* record.py 299
AdcGainRaises(v) == NumLeq(v, Zero)

\* record.py 303: -2147483648 is -(2^15) * 2^16 and 2147483648 is 2^15 * 2^16
BaselineRaises(v) == NumLess(v, PyBigInt(-(2^15), 0)) \/ NumLess(PyBigInt(2^15, 0), v)

\* mutant of SigNameRaises: the names are not compared with each other
SigNameRaises_NoSet(l, v) == HasWhitespace(Elems(v))

\* record.py 315-318
SigNameRaises(l, v) ==
    \/ HasWhitespace(Elems(v))
    \/ Cardinality(Range(l)) # Len(l)

\* record.py 280-285
FileNameRaises(l, v) ==
    \/ ~FileNameMatch(Elems(v)) \/ MatchStringDiffers(Elems(v))
    \/ ~is_monotonic(l)

\* record.py 278-318: whether channel ch of the list l raises ValueError
SignalFieldRaises(f, l, ch) ==
    LET v == At(l, ch)
    IN  CASE f = "file_name"       -> FileNameRaises(l, v)
          [] f = "fmt"             -> Elems(v) \notin DAT_FMTS
          [] f = "samps_per_frame" -> NumLess(v, One)
          [] f = "skew"            -> NumLess(v, Zero)
          [] f = "byte_offset"     -> NumLess(v, Zero)
          [] f = "adc_gain"        -> AdcGainRaises(v)
          [] f = "baseline"        -> BaselineRaises(v)
          [] f = "units"           -> HasWhitespace(Elems(v))
          [] f = "adc_res"         -> NumLess(v, Zero)
          [] f = "block_size"      -> NumLess(v, Zero)
          [] f = "sig_name"        -> SigNameRaises(l, v)
          [] OTHER                 -> FALSE

\* record.py 272-276: the channels the loop does not skip
ChannelsChecked(l, required) ==
    {ch \in 0..(Len(l) - 1) :
        ~(ch \notin RequiredSet(required, Len(l)) /\ At(l, ch) = PyNone)}

\* record.py 243-265: whether the field of the record line raises ValueError
RecordFieldRaises(f, v) ==
    CASE f = "record_name"  -> ~NameMatch(Elems(v)) \/ MatchStringDiffers(Elems(v))
      [] f = "n_seg"        -> NumLeq(v, Zero)
      [] f = "n_sig"        -> NumLeq(v, Zero)
      [] f = "fs"           -> NumLeq(v, Zero)
      [] f = "counter_freq" -> NumLeq(v, Zero)
      [] f = "base_counter" -> NumLeq(v, Zero)
      [] f = "sig_len"      -> NumLess(v, Zero)
      [] OTHER              -> FALSE

\* record.py 319-329: item[ch] for each ch in range(len(item)), where item is
\* the str that passed the type check, so that item[ch] is one character
SegNameRaises(v) ==
    \E ch \in 1..Len(Elems(v)) :
        LET name == <<Elems(v)[ch]>>
        IN  name # <<"~">> /\ (~NameMatch(name) \/ MatchStringDiffers(name))

\* record.py 232-342: "" or "ValueError", for an item of the right type
check_field_domain(f, v, required) ==
    IF f \in SignalSpecs
    THEN IF \E ch \in ChannelsChecked(Elems(v), required) :
                SignalFieldRaises(f, Elems(v), ch)
         THEN "ValueError" ELSE ""
    ELSE IF f = "seg_name"
    THEN IF SegNameRaises(v) THEN "ValueError" ELSE ""
    ELSE IF RecordFieldRaises(f, v) THEN "ValueError" ELSE ""

\* mutant of check_field: the type of the item is checked before its presence
check_field_TypeFirst(f, v, required) ==
    IF check_item_type(v, AllowedTypes(f), f \in ListFields, required) # ""
    THEN "TypeError"
    ELSE IF v = PyNone THEN "Exception"
    ELSE check_field_domain(f, v, required)

\* check_field, record.py 216-342: "" when it returns, else the exception
check_field(f, v, required) ==
    IF v = PyNone THEN "Exception"
    ELSE IF check_item_type(v, AllowedTypes(f), f \in ListFields, required) # ""
    THEN "TypeError"
    ELSE check_field_domain(f, v, required)

\* a call of check_field on a record whose field holds cf_item
CheckField ==
    /\ pc = "check_field"
    /\ err' = check_field(cf_field, cf_item, cf_required_channels)
    /\ pc' = IF err' = "" THEN "done" ELSE "raised"
    /\ UNCHANGED <<header, inputs, checked, writing, stdout, n_sig, sig_len, n_seg, seg_name,
                   seg_len, segments, seg_numbers, seg_ranges, seg_channels, result>>

(***************************************************************************)
(* MultiRecord._check_segment_cohesion (record.py 839-876) on a record     *)
(* whose segments are Record objects with fs, sig_len and file_name.       *)
(***************************************************************************)
\* "" when the method returns, else the exception it raises.  After the test
\* of record.py 853 the loop header of record.py 856 evaluates range(n_seg),
\* and n_seg is neither a local of the method nor a name of the module, so
\* the body of the loop (record.py 857-873) is never reached.
check_segment_cohesion(nseg, segs, f, seglen) ==
    IF nseg # Len(segs) THEN "ValueError" ELSE "NameError"

\* a call of _check_segment_cohesion
CheckSegmentCohesion ==
    /\ pc = "check_segment_cohesion"
    /\ err' = check_segment_cohesion(n_seg, segments, fs, seg_len)
    /\ pc' = IF err' = "" THEN "done" ELSE "raised"
    /\ UNCHANGED <<header, inputs, checked, writing, stdout, n_sig, sig_len, n_seg, seg_name,
                   seg_len, segments, seg_numbers, seg_ranges, seg_channels, result>>

(***************************************************************************)
(* Record.wrsamp (record.py 640-664) and MultiRecord.wrsamp (record.py     *)
(* 815-836).  A record to write is the record of its name, its file_name   *)
(* list and whether its fields and its signals would pass the checks; a    *)
(* MultiRecord has segments instead of a file_name list.                   *)
(***************************************************************************)
HeaderFile(name) == <<name, ".hea">>
DatFile(name) == <<name, ".dat">>

\* a record to write: its name, its file_name list, and whether its fields and
\* its signals pass the checks made before writing
WritableRecord(name, fn, fv, sv) ==
    [record_name |-> name, n_sig |-> Len(fn), file_name |-> fn,
     fields_valid |-> fv, signals_valid |-> sv]

\* the entries of l without repeats, in the order of first occurrence
Unique(l) ==
    LET first == {i \in 1..Len(l) : \A j \in 1..(i - 1) : l[j] # l[i]}
        nth(k) == CHOOSE i \in first : Cardinality({j \in first : j < i}) = k - 1
    IN  [k \in 1..Cardinality(first) |-> l[nth(k)]]

\* wrheader: "Perform field validity and cohesion checks, and write the
\* header file" (record.py 658-660, 830-832)
wrheader(rec) ==
    IF rec.fields_valid
    THEN [files |-> <<HeaderFile(rec.record_name)>>, err |-> ""]
    ELSE [files |-> <<>>, err |-> "Exception"]

\* wr_dats: "Perform signal validity and cohesion checks, and write the
\* associated dat files" (record.py 662-664)
wr_dats(rec) ==
    IF rec.signals_valid
    THEN [files |-> Unique(rec.file_name), err |-> ""]
    ELSE [files |-> <<>>, err |-> "Exception"]

\* Record.wrsamp: the files it writes and the exception that ends it
record_wrsamp(rec) ==
    LET h == wrheader(rec)
    IN  IF h.err # "" THEN h
        ELSE IF rec.n_sig > 0
        THEN LET d == wr_dats(rec)
             IN  [files |-> h.files \o d.files, err |-> d.err]
        ELSE h

\* record.py 835-836: seg.wrsamp for each segment, up to the first that fails
RECURSIVE segments_wrsamp(_, _)
segments_wrsamp(segs, files) ==
    IF segs = <<>> THEN [files |-> files, err |-> ""]
    ELSE LET w == record_wrsamp(Head(segs))
         IN  IF w.err # "" THEN [files |-> files \o w.files, err |-> w.err]
             ELSE segments_wrsamp(Tail(segs), files \o w.files)

\* MultiRecord.wrsamp
multi_wrsamp(rec) ==
    LET h == wrheader(rec)
    IN  IF h.err # "" THEN h ELSE segments_wrsamp(rec.segments, h.files)

\* a call of Record.wrsamp
RecordWrsamp ==
    /\ pc = "Record.wrsamp"
    /\ LET w == record_wrsamp(self_rec)
       IN  /\ written' = written \o w.files
           /\ err' = w.err
           /\ pc' = IF w.err = "" THEN "done" ELSE "raised"
    /\ UNCHANGED <<header, inputs, checked, self_rec, other_rec, args, calls, stdout,
                   n_sig, sig_len, n_seg, seg_name, seg_len, segments, seg_numbers,
                   seg_ranges, seg_channels, result>>

\* a call of MultiRecord.wrsamp
MultiRecordWrsamp ==
    /\ pc = "MultiRecord.wrsamp"
    /\ LET w == multi_wrsamp(self_rec)
       IN  /\ written' = written \o w.files
           /\ err' = w.err
           /\ pc' = IF w.err = "" THEN "done" ELSE "raised"
    /\ UNCHANGED <<header, inputs, checked, self_rec, other_rec, args, calls, stdout,
                   n_sig, sig_len, n_seg, seg_name, seg_len, segments, seg_numbers,
                   seg_ranges, seg_channels, result>>

(***************************************************************************)
(* The function wrsamp (record.py 2363-2474).  Its arguments are the       *)
(* record name as a list of characters, which of p_signal, d_signal, fmt,  *)
(* adc_gain and baseline are given, and how the methods it calls on the    *)
(* new record will end.                                                    *)
(***************************************************************************)
\* record.py 2440-2447: the exception the checks of the arguments raise
wrsamp_rejects_AnyName(a) ==
    IF a.p_signal /\ a.d_signal THEN "Exception"
    ELSE IF a.d_signal /\ (~a.fmt \/ ~a.adc_gain \/ ~a.baseline) THEN "Exception"
    ELSE ""
wrsamp_rejects(a) ==
    IF Contains(a.record_name, ".") THEN "Exception"
    ELSE IF a.p_signal /\ a.d_signal THEN "Exception"
    ELSE IF a.d_signal /\ (~a.fmt \/ ~a.adc_gain \/ ~a.baseline) THEN "Exception"
    ELSE ""

\* record.py 2440-2447
WrsampCheck ==
    /\ pc = "wrsamp"
    /\ err' = wrsamp_rejects(args)
    /\ pc' = IF err' = "" THEN "set_features" ELSE "raised"
    /\ UNCHANGED <<header, inputs, checked, writing, stdout, n_sig, sig_len, n_seg,
                   seg_name, seg_len, segments, seg_numbers, seg_ranges, seg_channels,
                   result>>

\* record.py 2450-2469: the Record is created and its features are set
WrsampFeatures ==
    /\ pc = "set_features"
    /\ self_rec' = WritableRecord(args.record_name, <<DatFile(args.record_name)>>,
                                  args.fields_valid, args.signals_valid)
    /\ calls' = calls \o <<"Record", IF args.p_signal THEN "set_d_features(do_adc=1)"
                                      ELSE "set_d_features()">>
    /\ err' = IF args.features_set THEN "" ELSE "Exception"
    /\ pc' = IF err' = "" THEN "set_defaults" ELSE "raised"
    /\ UNCHANGED <<header, inputs, checked, other_rec, args, written, stdout, n_sig,
                   sig_len, n_seg, seg_name, seg_len, segments, seg_numbers, seg_ranges,
                   seg_channels, result>>

\* record.py 2472
WrsampDefaults ==
    /\ pc = "set_defaults"
    /\ calls' = Append(calls, "set_defaults")
    /\ err' = IF args.defaults_set THEN "" ELSE "Exception"
    /\ pc' = IF err' = "" THEN "write" ELSE "raised"
    /\ UNCHANGED <<header, inputs, checked, self_rec, other_rec, args, written, stdout,
                   n_sig, sig_len, n_seg, seg_name, seg_len, segments, seg_numbers,
                   seg_ranges, seg_channels, result>>

\* record.py 2474
WrsampWrite ==
    /\ pc = "write"
    /\ calls' = Append(calls, "wrsamp")
    /\ LET w == record_wrsamp(self_rec)
       IN  /\ written' = written \o w.files
           /\ err' = w.err
           /\ pc' = IF w.err = "" THEN "done" ELSE "raised"
    /\ UNCHANGED <<header, inputs, checked, self_rec, other_rec, args, stdout,
                   n_sig, sig_len, n_seg, seg_name, seg_len, segments, seg_numbers,
                   seg_ranges, seg_channels, result>>

(***************************************************************************)
(* Record.__eq__ (record.py 593-637).  An object is the function from the  *)
(* names of its attributes (its __dict__) to their values; a numpy array   *)
(* is the value <<"ndarray", 0, 0, rows>>, a sample being "nan" or the     *)
(* text of a number.                                                       *)
(***************************************************************************)
PyArray(rows) == <<"ndarray", 0, 0, rows>>

\* the attributes in the order __init__ sets them (record.py 176-187,
\* 572-589); base_datetime is added by _adjust_datetime (record.py 441)
AttributeOrder ==
    <<"record_name", "n_sig", "fs", "sig_name", "p_signal", "d_signal", "e_d_signal",
      "fmt", "base_datetime">>

Shape(a) == <<Len(Elems(a)), IF Len(Elems(a)) = 0 THEN 0 ELSE Len(Elems(a)[1])>>

\* np.testing.assert_array_equal(a, b) passes: same shape, and at every
\* position both samples are nan or both are the same number
array_equal(a, b) ==
    /\ Shape(a) = Shape(b)
    /\ \A i \in 1..Len(Elems(a)) : \A j \in 1..Len(Elems(a)[i]) :
          LET x == Elems(a)[i][j]
              y == Elems(b)[i][j]
          IN  (x = "nan" /\ y = "nan") \/ (x # "nan" /\ y # "nan" /\ x = y)

\* l1 != l2 for two lists: the lengths, then the first pair of items that
\* are not equal; the truth value of array == array, for arrays of more
\* than one sample, is a ValueError
RECURSIVE list_ne(_, _)
list_ne(l1, l2) ==
    IF Len(l1) # Len(l2) THEN "differ"
    ELSE IF l1 = <<>> THEN "equal"
    ELSE IF TypeOf(Head(l1)) = "ndarray" /\ TypeOf(Head(l2)) = "ndarray" THEN "ValueError"
    ELSE IF Head(l1) # Head(l2) THEN "differ"
    ELSE list_ne(Tail(l1), Tail(l2))

\* record.py 623-635 for one attribute: "equal" when the loop goes on,
\* "differ" when it returns False, else the exception raised
compare_attribute(v1, v2) ==
    IF TypeOf(v1) # TypeOf(v2) THEN "differ"
    ELSE IF TypeOf(v1) = "ndarray"
    THEN IF array_equal(v1, v2) THEN "equal" ELSE "AssertionError"
    ELSE IF TypeOf(v1) = "list" THEN list_ne(Elems(v1), Elems(v2))
    ELSE IF v1 # v2 THEN "differ" ELSE "equal"

\* record.py 618-637: the loop over att1.keys()
RECURSIVE compare_attributes(_, _, _)
compare_attributes(keys, att1, att2) ==
    IF keys = <<>> THEN "equal"
    ELSE IF Head(keys) \notin DOMAIN att1 THEN compare_attributes(Tail(keys), att1, att2)
    ELSE LET c == compare_attribute(att1[Head(keys)], att2[Head(keys)])
         IN  IF c = "equal" THEN compare_attributes(Tail(keys), att1, att2) ELSE c

\* self == other: "equal" for True, "differ" for False, else the exception
record_eq(att1, att2) ==
    IF DOMAIN att1 # DOMAIN att2 THEN "differ"
    ELSE compare_attributes(AttributeOrder, att1, att2)

\* a call of Record.__eq__; what it returns is held as <<True>> or <<False>>
RecordEq ==
    /\ pc = "__eq__"
    /\ LET e == record_eq(self_rec, other_rec)
       IN  /\ result' = IF e = "equal" THEN <<TRUE>>
                        ELSE IF e = "differ" THEN <<FALSE>> ELSE NoObject
           /\ err' = IF e \in {"equal", "differ"} THEN "" ELSE e
           /\ pc' = IF e \in {"equal", "differ"} THEN "done" ELSE "raised"
    /\ UNCHANGED <<header, inputs, checked, writing, stdout, n_sig, sig_len, n_seg,
                   seg_name, seg_len, segments, seg_numbers, seg_ranges, seg_channels>>

Next ==
    \/ CheckReadInputs
    \/ EmptyRecord
    \/ RequiredSegments
    \/ ReadSegments
    \/ ArrangeFields
    \/ MultiToSingle

(***************************************************************************)
(* Specifications: the same read, started from three families of records   *)
(* and arguments.                                                          *)
(***************************************************************************)
\* the example of the specification: segments of 4 and 6 samples
ExampleSegLen == <<4, 6>>

AllNames(n) == [i \in 1..n |-> SigNames]
NoOdd(n) == [i \in 1..n |-> ""]

\* Segment geometry: every segment count and length within the bounds, every
\* sampfrom and sampto inside the record, all segments alike.
InitGeometry ==
    \E lay \in {"fixed", "variable"} :
    \E lens \in UNION {[1..k -> 1..MaxSegLen] : k \in 1..MaxSeg} \cup {ExampleSegLen} :
    \E sf \in 0..Sum(lens), st \in 0..Sum(lens) :
    \E ch \in {<<>>, <<1, 0>>}, ph \in BOOLEAN :
        InitRecord(lay, lens, AllNames(Len(lens)), NoOdd(Len(lens)),
                   sf, st, ch, ph, TRUE, 64, TRUE, TRUE)

\* Segment contents: null segments, segments with their own channel lists,
\* the first or the last segment with a changed field, every duplicate-free
\* channel selection.
InitLayout ==
    \E lay \in {"fixed", "variable"} :
    \E names \in [1..(MaxSeg - 1) ->
                    IF lay = "fixed" THEN {SigNames, <<>>} ELSE SegSigNames \cup {<<>>}] :
    \E oddSeg \in {0, 1, MaxSeg - 1} :
    \E oddField \in IF oddSeg = 0 THEN {""} ELSE SpecFields :
    \E sf \in {0, 1} :
    \E st \in {MaxSegLen, MaxSegLen * (MaxSeg - 1) - 1, MaxSegLen * (MaxSeg - 1)} :
    \E ch \in {c \in SeqsUpTo(0..(Len(SigNames) - 1), Len(SigNames)) : Injective(c)} :
    \E ph \in BOOLEAN, fc \in BOOLEAN :
        InitRecord(lay, [i \in 1..(MaxSeg - 1) |-> MaxSegLen], names,
                   [i \in 1..(MaxSeg - 1) |-> IF i = oddSeg THEN oddField ELSE ""],
                   sf, st, ch, ph, TRUE, 64, fc, TRUE)

\* Arguments: valid and invalid ranges, channels and return_res.
InitInputs ==
    \E lay \in {"fixed", "variable"} :
    \E sf \in (-1)..(2 * MaxSegLen + 1), st \in (-1)..(2 * MaxSegLen + 1) :
    \E ch \in {<<>>, <<0>>, <<1, 0>>, <<-1>>, <<2>>, <<0, 2>>, <<-1, 1>>} :
    \E ph \in BOOLEAN, sm \in BOOLEAN, m \in BOOLEAN :
    \E rr \in {64, 32, 16, 8, 0, 24, 128} :
        InitRecord(lay, <<MaxSegLen, MaxSegLen>>, AllNames(2), NoOdd(2),
                   sf, st, ch, ph, sm, rr, TRUE, m)

\* the whole of rdrecord
NextRecord ==
    \/ ResolveChannels
    \/ CheckReadInputs
    \/ EmptyRecord
    \/ ReadSingle
    \/ RequiredSegments
    \/ ReadSegments
    \/ ArrangeFields
    \/ MultiToSingle

\* the state after rdheader of the single-segment record of header h
SingleRecord(h) ==
    /\ layout = None
    /\ dir = (RecordName :> h)
    /\ seg_name = <<>>
    /\ seg_len = <<>>
    /\ n_seg = 0
    /\ n_sig = h.n_sig
    /\ sig_len = h.sig_len

\* the state after rdheader of a single-segment record of two channels
SingleHeader(spf, len) == SingleRecord(RecordHeader(spf, len))

\* Records: single-segment records with one or more samples per frame and
\* multi-segment records of two segments, one of which may be null, hold fewer
\* channels or store a channel with another gain, read with channels or
\* channel_names, valid or not, flattened or not.
InitRdrecord ==
    /\ \/ \E spf \in {<<1, 1>>, <<1, 2>>} : SingleHeader(spf, 2 * MaxSegLen)
       \/ \E lay \in {"fixed", "variable"} :
          \E names \in {AllNames(2), <<<<>>, SigNames>>, <<SigNames, <<>>>>,
                        <<<<"II">>, SigNames>>} :
          \E odd \in {NoOdd(2)} \cup
                      (IF names = AllNames(2) THEN {<<"", "adc_gain">>} ELSE {}) :
              MultiHeader(lay, <<MaxSegLen, MaxSegLen>>, names, odd)
    /\ fs \in {250, 360}
    /\ counter_freq = None
    /\ base_counter = None
    /\ \E start \in {<<NoObject, NoObject>>,
                      <<NoObject, <<23, 59, 59, 998000>>>>,
                      <<<<2019, 12, 31>>, <<23, 59, 59, 998000>>>>} :
          base_date = start[1] /\ base_time = start[2]
    /\ base_datetime = NoObject
    /\ segments = NoObject
    /\ sampfrom \in {0, 1}
    /\ sampto \in {1, MaxSegLen + 1, 2 * MaxSegLen, 2 * MaxSegLen + 1}
    /\ \/ /\ channels \in {<<>>, <<<<>>>>, <<<<0>>>>, <<<<1, 0>>>>, <<<<2>>>>}
          /\ channel_names = <<>>
       \/ /\ channels = <<>>
          /\ channel_names \in {<<<<>>>>, <<<<"X">>>>, <<<<"II", "X">>>>, <<<<"II", "I">>>>}
       \/ /\ channels = <<<<0>>>>
          /\ channel_names = <<<<"II", "X">>>>
    /\ warn_empty \in BOOLEAN
    /\ ignore_skew = FALSE
    /\ physical \in BOOLEAN
    /\ smooth_frames \in BOOLEAN
    /\ return_res \in {64, 8}
    /\ force_channels = TRUE
    /\ m2s \in BOOLEAN
    /\ seg_numbers = <<>> /\ seg_ranges = <<>> /\ seg_channels = <<>>
    /\ result = NoObject
    /\ stdout = <<>>
    /\ NoCheckField
    /\ NoWrite
    /\ pc = "channel_names"
    /\ err = ""

\* Skewed records: single-segment and multi-segment records in which channel
\* "I" of some or of all segments has a skew of one frame, read with and
\* without ignore_skew.
InitSkew ==
    /\ \/ \E spf \in {<<1, 1>>, <<1, 2>>} : \E odd \in {"", "skew"} :
             SingleRecord([samps_per_frame |-> spf] @@ DeclaredChecks(Len(SigNames))
                             @@ SegHeader(RecordName, SigNames, odd, 2 * MaxSegLen))
       \/ \E lay \in {"fixed", "variable"} :
          \E names \in {AllNames(2), <<SigNames, <<>>>>} :
          \E odd \in [1..2 -> {"", "skew"}] :
              MultiHeader(lay, <<MaxSegLen, MaxSegLen>>, names, odd)
    /\ DefaultRecordLine
    /\ segments = NoObject
    /\ sampfrom \in {0, 1}
    /\ sampto \in {MaxSegLen, MaxSegLen + 1, 2 * MaxSegLen}
    /\ channels \in {<<>>, <<<<>>>>, <<<<0>>>>, <<<<1>>>>, <<<<1, 0>>>>}
    /\ channel_names = <<>>
    /\ warn_empty = FALSE
    /\ ignore_skew \in BOOLEAN
    /\ physical \in BOOLEAN
    /\ smooth_frames \in BOOLEAN
    /\ return_res = 64
    /\ force_channels = TRUE
    /\ m2s \in BOOLEAN
    /\ seg_numbers = <<>> /\ seg_ranges = <<>> /\ seg_channels = <<>>
    /\ result = NoObject
    /\ stdout = <<>>
    /\ NoCheckField
    /\ NoWrite
    /\ pc = "channel_names"
    /\ err = ""

\* no read is under way
NoRead ==
    /\ layout = None /\ dir = <<>>
    /\ DefaultRecordLine
    /\ n_sig = 0 /\ sig_len = 0 /\ n_seg = 0
    /\ seg_name = <<>> /\ seg_len = <<>> /\ segments = NoObject
    /\ sampfrom = 0 /\ sampto = 0 /\ channels = <<>>
    /\ channel_names = <<>> /\ warn_empty = FALSE /\ ignore_skew = FALSE
    /\ physical = FALSE /\ smooth_frames = TRUE /\ return_res = 64
    /\ force_channels = TRUE /\ m2s = TRUE
    /\ seg_numbers = <<>> /\ seg_ranges = <<>> /\ seg_channels = <<>>
    /\ result = NoObject
    /\ stdout = <<>>

\* the entries a per-channel field is given: values in and out of its domain,
\* None, and a value of a type the field does not allow
EntriesOf(f) ==
    CASE f = "baseline" ->
            {PyNone, PyInt(0), PyBigInt(-(2^15) - 1, Limb - 1), PyBigInt(-(2^15), 0),
             PyBigInt(2^15 - 1, Limb - 1), PyBigInt(2^15, 0), PyBigInt(2^15, 1)}
      [] f = "adc_gain" ->
            {PyNone, PyFloat(0), PyFloat(-15), PyFloat(5), PyInt(200), PyStr(<<"m", "V">>)}
      [] f = "sig_name" ->
            {PyNone, PyStr(<<"I">>), PyStr(<<"I", "I">>), PyStr(<<"I", " ", "I">>),
             PyInt(0)}
      [] f = "file_name" ->
            {PyNone, PyStr(<<"a", ".", "d">>), PyStr(<<"b", ".", "d">>),
             PyStr(<<".", "d">>), PyInt(0)}
      [] f = "units" ->
            {PyNone, PyStr(<<"m", "V">>), PyStr(<<"m", "\t", "V">>), PyInt(0)}
      [] f = "fmt" ->
            {PyNone, PyStr(<<"1", "6">>), PyStr(<<"9", "9">>), PyInt(16)}
      [] OTHER ->
            {PyNone, PyInt(-1), PyInt(0), PyInt(1), PyFloat(5)}

\* the values a field of the record line is given
ScalarsOf(f) ==
    {PyNone, PyInt(-1), PyInt(0), PyInt(1), PyFloat(-5), PyFloat(0), PyFloat(5),
     PyStr(<<"r", "1">>), PyStr(<<"r", " ", "1">>), PyStr(<<" ">>), PyStr(<<>>),
     PyStr(<<"r", ".", "d">>), PyStr(<<"-", "r", "_", "1">>), PyStr(<<".", "r">>),
     PyList(<<PyInt(1)>>)}

\* the segment names of a record to check: data segments and null segments
\* with or without a character that no name may hold
SegNameEntries ==
    {PyStr(<<"~">>), PyStr(<<"b", "-", "1">>), PyStr(<<"b", " ", "1">>), PyStr(<<"b", ".", "d">>),
     PyStr(<<".">>)}

\* Fields: every field with a value that is missing, of a wrong type, outside
\* its domain or valid, and every set of required channels.
InitField ==
    /\ NoRead
    /\ NoWrite
    /\ \/ /\ cf_field \in SignalSpecs
          /\ cf_item \in {PyNone, PyInt(0)} \cup
                {PyList(l) : l \in SeqsUpTo(EntriesOf(cf_field), MaxChannels)}
          /\ cf_required_channels \in
                {<<>>} \cup {<<l>> : l \in {<<>>, <<0>>, <<1>>, <<0, 2>>, <<1, 2>>}}
       \/ /\ cf_field \in RecordSpecs
          /\ cf_item \in ScalarsOf(cf_field)
          /\ cf_required_channels = <<>>
       \/ /\ cf_field = "seg_name"
          /\ cf_item \in {PyNone, PyStr(<<"~">>), PyStr(<<"b", "1">>), PyStr(<<"b", " ">>)}
                \cup {PyList(l) : l \in SeqsUpTo(SegNameEntries, MaxSeg)}
          /\ cf_required_channels = <<>>
    /\ pc = "check_field"
    /\ err = ""

NextField == CheckField

\* the segments of a record to be written: each has the fs of the record or
\* another, no sample or MaxSegLen samples, and the file name of a layout
\* segment or of a dat file
SegmentRecords ==
    {[fs |-> f, sig_len |-> n, file_name |-> names] :
        f \in {250, 360}, n \in {0, MaxSegLen}, names \in {<<"~">>, <<"a.dat">>}}

\* Records to be written: any segments, n_seg their number or one more,
\* seg_len the lengths of the segments or wrong for one of them.
InitCohesion ==
    /\ layout = None /\ dir = <<>>
    /\ DefaultRecordLine
    /\ segments \in SeqsUpTo(SegmentRecords, MaxSeg)
    /\ n_seg \in {Len(segments), Len(segments) + 1}
    /\ \E bad \in 0..Len(segments) :
          seg_len = [i \in 1..Len(segments) |->
                       segments[i].sig_len + (IF i = bad THEN 1 ELSE 0)]
    /\ seg_name = <<>>
    /\ n_sig = 1
    /\ sig_len = Sum(seg_len)
    /\ sampfrom = 0 /\ sampto = 0 /\ channels = <<>>
    /\ channel_names = <<>> /\ warn_empty = FALSE /\ ignore_skew = FALSE
    /\ physical = FALSE /\ smooth_frames = TRUE /\ return_res = 64
    /\ force_channels = TRUE /\ m2s = TRUE
    /\ seg_numbers = <<>> /\ seg_ranges = <<>> /\ seg_channels = <<>>
    /\ result = NoObject
    /\ stdout = <<>>
    /\ NoCheckField
    /\ NoWrite
    /\ pc = "check_segment_cohesion"
    /\ err = ""

NextCohesion == CheckSegmentCohesion

\* Records whose start is adjusted: base_date and base_time set or not, at
\* the ends of days, months, leap and common years; reads from sample 0, from
\* within the first second, and from one or more days into the record.
InitDatetime ==
    /\ layout = None /\ dir = <<>>
    /\ fs \in {1, 128, 250, 360}
    /\ counter_freq = None
    /\ base_counter = None
    /\ base_time \in {NoObject, <<0, 0, 0, 0>>, <<10, 0, 0, 0>>, <<23, 59, 59, 0>>,
                      <<23, 59, 59, 996000>>, <<23, 59, 59, 999999>>}
    /\ base_date \in {NoObject, <<2019, 12, 31>>, <<2020, 2, 28>>, <<2021, 2, 28>>,
                      <<2000, 2, 29>>, <<1900, 2, 28>>, <<2020, 12, 31>>}
    /\ base_datetime = NoObject
    /\ sampfrom \in {0, 1, 125, 360, 86400, 172801, 5184000}
    /\ n_sig = 0 /\ sig_len = 0 /\ n_seg = 0
    /\ seg_name = <<>> /\ seg_len = <<>> /\ segments = NoObject
    /\ sampto = 0 /\ channels = <<>>
    /\ channel_names = <<>> /\ warn_empty = FALSE /\ ignore_skew = FALSE
    /\ physical = FALSE /\ smooth_frames = TRUE /\ return_res = 64
    /\ force_channels = TRUE /\ m2s = TRUE
    /\ seg_numbers = <<>> /\ seg_ranges = <<>> /\ seg_channels = <<>>
    /\ result = NoObject
    /\ stdout = <<>>
    /\ NoCheckField
    /\ NoWrite
    /\ pc = "adjust_datetime"
    /\ err = ""

NextDatetime == AdjustDatetime

\* the records wrsamp may be called on: no signal, one dat file for one or
\* two signals, or two dat files; fields and signals valid or not
WritableRecords(name) ==
    {WritableRecord(name, fn, fv, sv) :
        fn \in {<<>>, <<DatFile(name)>>, <<DatFile(name), DatFile(name)>>,
                <<DatFile(name), DatFile("other")>>},
        fv \in BOOLEAN, sv \in BOOLEAN}

\* the MultiRecords wrsamp may be called on, of up to MaxSeg segments
WritableMultiRecords ==
    {[record_name |-> RecordName, fields_valid |-> fv, segments |-> segs] :
        fv \in BOOLEAN,
        segs \in {[i \in 1..Len(v) |->
                     WritableRecord(SegFileNames[i],
                                    IF v[i][1] THEN <<DatFile(SegFileNames[i])>> ELSE <<>>,
                                    v[i][2], v[i][3])] :
                    v \in SeqsUpTo(BOOLEAN \X BOOLEAN \X BOOLEAN, MaxSeg)}}

InitWrite ==
    /\ NoRead
    /\ NoCheckField
    /\ \/ self_rec \in WritableRecords(RecordName) /\ pc = "Record.wrsamp"
       \/ self_rec \in WritableMultiRecords /\ pc = "MultiRecord.wrsamp"
    /\ other_rec = NoObject /\ args = NoObject
    /\ calls = <<>> /\ written = <<>>
    /\ err = ""

NextWrite == RecordWrsamp \/ MultiRecordWrsamp

\* the calls of the function wrsamp: a record name with or without '.',
\* every combination of the optional arguments, every outcome of the calls
InitWrsamp ==
    /\ NoRead
    /\ NoCheckField
    /\ args \in [record_name : {<<"e", "c", "g">>, <<"e", ".", "g">>, <<".">>},
                  p_signal : BOOLEAN, d_signal : BOOLEAN,
                  fmt : BOOLEAN, adc_gain : BOOLEAN, baseline : BOOLEAN,
                  features_set : BOOLEAN, defaults_set : BOOLEAN,
                  fields_valid : BOOLEAN, signals_valid : BOOLEAN]
    /\ self_rec = NoObject /\ other_rec = NoObject
    /\ calls = <<>> /\ written = <<>>
    /\ pc = "wrsamp"
    /\ err = ""

NextWrsamp == WrsampCheck \/ WrsampFeatures \/ WrsampDefaults \/ WrsampWrite

\* signal arrays: two samples by one channel, with and without nan, and one
\* of another shape
SignalArrays ==
    {PyArray(<<<<"1">>, <<"2">>>>), PyArray(<<<<"1">>, <<"3">>>>),
     PyArray(<<<<"1">>, <<"nan">>>>), PyArray(<<<<"1">>, <<"2">>, <<"2">>>>)}

\* Record objects to compare: read or built with p_signal or d_signal or
\* e_d_signal or none, and with base_datetime set or not
ComparedRecords ==
    {[record_name |-> PyStr(<<"a">>), n_sig |-> PyInt(1), fs |-> f,
      sig_name |-> PyList(<<PyStr(<<"I">>)>>), p_signal |-> sig[1], d_signal |-> sig[2],
      e_d_signal |-> sig[3], fmt |-> fm] @@ extra :
        f \in {PyInt(250), PyFloat(2500), PyInt(360)},
        sig \in ({<<PyNone, PyNone, PyNone>>}
                 \cup {<<a, PyNone, PyNone>> : a \in SignalArrays}
                 \cup {<<PyNone, a, PyNone>> : a \in SignalArrays}
                 \cup {<<PyNone, PyNone, PyList(<<a>>)>> : a \in SignalArrays}),
        fm \in {PyNone, PyList(<<PyStr(<<"1", "6">>)>>)},
        extra \in {<<>>, [base_datetime |-> PyStr(<<"d">>)]}}

InitEq ==
    /\ NoRead
    /\ NoCheckField
    /\ self_rec \in ComparedRecords
    /\ other_rec \in ComparedRecords
    /\ args = NoObject /\ calls = <<>> /\ written = <<>>
    /\ pc = "__eq__"
    /\ err = ""

NextEq == RecordEq

\* the header file of a record without signals, stating sig_len or not
NoSignalHeader(len) ==
    [samps_per_frame |-> <<>>] @@ DeclaredChecks(0) @@ SegHeader(RecordName, <<>>, "", len)

\* Calls of rdrecord on single-segment records with and without signals,
\* whose headers state the signal length or leave it out, with sampto given
\* or left at None; args keeps the arguments of the call.
InitDefaults ==
    /\ \E h \in {RecordHeader(spf, 2 * MaxSegLen) : spf \in {<<1, 1>>, <<1, 2>>}}
                \cup {[dat_len |-> 2 * MaxSegLen] @@ RecordHeader(<<1, 1>>, NoInt),
                      NoSignalHeader(NoInt), NoSignalHeader(0)} :
          SingleRecord(h)
    /\ DefaultRecordLine
    /\ segments = NoObject
    /\ sampfrom \in {0, 1}
    /\ sampto \in {NoInt, 0, 1, 2 * MaxSegLen}
    /\ \/ /\ channels \in {<<>>, <<<<>>>>, <<<<0>>>>, <<<<1, 0>>>>}
          /\ channel_names = <<>>
       \/ /\ channels = <<>>
          /\ channel_names \in {<<<<"X">>>>, <<<<"II", "I">>>>}
    /\ warn_empty \in BOOLEAN
    /\ ignore_skew = FALSE
    /\ physical \in BOOLEAN
    /\ smooth_frames \in BOOLEAN
    /\ return_res = 64
    /\ force_channels = TRUE
    /\ m2s = TRUE
    /\ seg_numbers = <<>> /\ seg_ranges = <<>> /\ seg_channels = <<>>
    /\ result = NoObject
    /\ stdout = <<>>
    /\ NoCheckField
    /\ self_rec = NoObject /\ other_rec = NoObject
    /\ args = [sampto |-> sampto, channels |-> channels, channel_names |-> channel_names]
    /\ calls = <<>> /\ written = <<>>
    /\ pc = "sampto"
    /\ err = ""

\* rdrecord on a single-segment record, from its first line
NextDefaults ==
    \/ DefaultSampto
    \/ ResolveChannels
    \/ CheckReadInputs
    \/ EmptyRecord
    \/ ReadSingle

Spec == InitGeometry /\ [][Next]_vars
SpecDefaults == InitDefaults /\ [][NextDefaults]_vars
SpecLayout == InitLayout /\ [][Next]_vars
SpecInputs == InitInputs /\ [][Next]_vars
SpecRecord == InitRdrecord /\ [][NextRecord]_vars
SpecSkew == InitSkew /\ [][NextRecord]_vars
SpecField == InitField /\ [][NextField]_vars
SpecCohesion == InitCohesion /\ [][NextCohesion]_vars
SpecDatetime == InitDatetime /\ [][NextDatetime]_vars
SpecWrite == InitWrite /\ [][NextWrite]_vars
SpecWrsamp == InitWrsamp /\ [][NextWrsamp]_vars
SpecEq == InitEq /\ [][NextEq]_vars

(***************************************************************************)
(* Properties.                                                             *)
(***************************************************************************)
\* _required_segments has returned and seg_len is still the header's
RequiredDone == pc = "read_segments"

\* lengths and cumulative lengths of the data segments (without the layout segment)
DataLens == Slice(seg_len, StartSeg(layout), Len(seg_len))
DataCum == CumSum(DataLens)

\* global sample number of the first sample of segment number s
SegStart(s) == Sum(Slice(seg_len, 0, s))

\* the global sample numbers selected by segments k.. of (seg_numbers, seg_ranges)
RECURSIVE SelectedSamples(_)
SelectedSamples(k) ==
    IF k > Len(seg_numbers) THEN <<>>
    ELSE [j \in 1..(seg_ranges[k][2] - seg_ranges[k][1]) |->
            SegStart(seg_numbers[k]) + seg_ranges[k][1] + j - 1]
         \o SelectedSamples(k + 1)

\* C1: for a record with sum(seg_len) = sig_len and 0 <= sampfrom < sampto <=
\* sig_len, _required_segments returns consecutive segment numbers and one local
\* range [a, b) per number with 0 <= a < b <= seg_len of that segment; the local
\* ranges, shifted by the segments' global starts and concatenated, are exactly
\* sampfrom .. sampto-1; and seg_len [4, 6] with sampfrom 2 and sampto 8 gives
\* data segments 0 and 1 with local ranges [2, 4) and [0, 4).
C1_RequiredSegmentsCover ==
    RequiredDone =>
        /\ Sum(seg_len) = sig_len
        /\ 0 <= sampfrom /\ sampfrom < sampto /\ sampto <= sig_len
        /\ Len(seg_numbers) >= 1
        /\ Len(seg_ranges) = Len(seg_numbers)
        /\ \A k \in 1..(Len(seg_numbers) - 1) : seg_numbers[k + 1] = seg_numbers[k] + 1
        /\ \A k \in 1..Len(seg_numbers) :
              /\ StartSeg(layout) <= seg_numbers[k]
              /\ seg_numbers[k] < Len(seg_len)
              /\ 0 <= seg_ranges[k][1]
              /\ seg_ranges[k][1] < seg_ranges[k][2]
              /\ seg_ranges[k][2] <= At(seg_len, seg_numbers[k])
        /\ SelectedSamples(1) = [j \in 1..(sampto - sampfrom) |-> sampfrom + j - 1]
        /\ (DataLens = ExampleSegLen /\ sampfrom = 2 /\ sampto = 8) =>
              /\ seg_numbers = <<StartSeg(layout), StartSeg(layout) + 1>>
              /\ seg_ranges = <<<<2, 4>>, <<0, 4>>>>

C1_Witness ==
    /\ RequiredDone
    /\ DataLens = ExampleSegLen /\ sampfrom = 2 /\ sampto = 8
    /\ layout = "fixed"

\* C2: when sampfrom equals a cumulative sum of segment lengths, the first
\* selected segment is the one after that boundary, the first whose cumulative
\* length exceeds sampfrom, and its local start is 0.
C2_FromOnBoundary ==
    RequiredDone =>
        \A i \in 1..Len(DataCum) :
            DataCum[i] = sampfrom =>
                /\ seg_numbers[1] = i + StartSeg(layout)
                /\ DataCum[i + 1] > sampfrom
                /\ seg_ranges[1][1] = 0

C2_Witness ==
    /\ RequiredDone
    /\ \E i \in 1..Len(DataCum) : DataCum[i] = sampfrom
    /\ Len(seg_numbers) >= 2

\* C3 as claimed: when sampto equals a cumulative sum other than the final one,
\* the last selected segment is the one after that boundary; when it equals the
\* final cumulative sum it is the last segment of the record.
C3_ToOnBoundaryNext ==
    RequiredDone =>
        \A i \in 1..Len(DataCum) :
            DataCum[i] = sampto =>
                seg_numbers[Len(seg_numbers)] =
                    (IF i < Len(DataCum) THEN i ELSE i - 1) + StartSeg(layout)

\* C3 as amended: when sampto equals a cumulative sum of segment lengths, final
\* or not, the last selected segment is the one that ends at that boundary, and
\* its local range ends at its seg_len.
C3_ToOnBoundaryEnds ==
    RequiredDone =>
        \A i \in 1..Len(DataCum) :
            DataCum[i] = sampto =>
                /\ seg_numbers[Len(seg_numbers)] = i - 1 + StartSeg(layout)
                /\ seg_ranges[Len(seg_ranges)][2] = DataLens[i]

C3_Witness ==
    /\ RequiredDone
    /\ \E i \in 1..(Len(DataCum) - 1) : DataCum[i] = sampto
    /\ Len(seg_numbers) >= 2

\* MultiRecord._arrange_fields has run on the record
Arranged == pc = "multi_to_single" \/ (pc = "done" /\ Len(channels) > 0)

\* C6: after _arrange_fields narrows the record to the result of
\* _required_segments, sum(seg_len) = sig_len = sampto - sampfrom, the lists
\* segments, seg_name and seg_len have n_seg entries, and in a variable layout
\* entry 0 is still the layout segment with seg_len 0 while every other seg_len
\* is at least 1.
C6_ArrangedCohesion ==
    Arranged =>
        /\ Sum(seg_len) = sig_len
        /\ sig_len = sampto - sampfrom
        /\ Len(segments) = n_seg
        /\ Len(seg_name) = n_seg
        /\ Len(seg_len) = n_seg
        /\ layout = "variable" =>
              /\ seg_len[1] = 0
              /\ seg_name[1] = LayoutName
              /\ segments[1] # NoObject
              /\ segments[1].record_name = LayoutName
              /\ \A k \in 2..Len(seg_len) : seg_len[k] >= 1

C6_Witness ==
    /\ Arranged
    /\ layout = "variable"
    /\ Len(seg_numbers) >= 2
    /\ seg_ranges[1][1] > 0
    /\ n_seg < Cardinality(DOMAIN dir)
    /\ seg_len[n_seg] < dir[seg_name[n_seg]].sig_len

\* multi_to_single has returned a Record / has raised
M2sReturned == pc = "done" /\ m2s /\ Len(channels) > 0
M2sRaised == pc = "raised" /\ err \in {"AttributeError", "Exception"}
M2sFinished == M2sReturned \/ M2sRaised

\* the rows (from 1) of the flattened signal that segments[k] spans
RowStart(k) == Sum(SubSeq(seg_len, 1, k - 1))
Rows(k) == (RowStart(k) + 1)..(RowStart(k) + seg_len[k])

ResultSignal == IF physical THEN result.p_signal ELSE result.d_signal
ResultFill(c) == IF physical THEN NaN ELSE digi_nan(result["fmt"][c])

\* two segments read hold a channel of the same name with a different `field`
FieldDisagree(field) ==
    \E k1, k2 \in 2..Len(segments) :
        /\ segments[k1] # NoObject
        /\ segments[k2] # NoObject
        /\ \E c1 \in 1..Len(segments[k1].sig_name), c2 \in 1..Len(segments[k2].sig_name) :
              /\ segments[k1].sig_name[c1] = segments[k2].sig_name[c2]
              /\ FieldOf(segments[k1], field)[c1] # FieldOf(segments[k2], field)[c2]

Disagree == \E field \in SpecFields : FieldDisagree(field)

\* C4 as claimed: a read with m2s=True whose range covers a null segment, fixed
\* or variable layout, completes without error (calibration mismatch of a
\* digital read aside) and the flattened signal holds the fill value in every
\* channel of every row of the null segment's span.
C4_NullSegmentFilled ==
    (/\ M2sFinished
     /\ err # "Exception"
     /\ \E k \in 1..Len(seg_name) : seg_name[k] = NullName) =>
        /\ pc = "done"
        /\ \A k \in 1..Len(seg_name) :
              seg_name[k] = NullName =>
                  \A r \in Rows(k) : \A c \in 1..result.n_sig :
                      ResultSignal[r][c] = ResultFill(c)

\* C5: in variable-layout flattening, for every output channel name and every
\* segment read, the rows of the segment hold the segment's own samples of that
\* name when the segment exposes it, and the fill value when it does not or is
\* null; the flattening raises nothing on account of an absent name.
C5_VariableLayoutColumns ==
    (layout = "variable" /\ M2sFinished) =>
        /\ M2sRaised => (~physical /\ Disagree)
        /\ M2sReturned =>
              /\ Len(ResultSignal) = sampto - sampfrom
              /\ \A r \in 1..Len(ResultSignal) :
                    Len(ResultSignal[r]) = Len(result.sig_name)
              /\ \A k \in 2..Len(seg_name) : \A r \in Rows(k) :
                 \A c \in 1..Len(result.sig_name) :
                    LET name == result.sig_name[c]
                        exposes == /\ seg_name[k] # NullName
                                   /\ Contains(dir[seg_name[k]].sig_name, name)
                        row == seg_ranges[k - 1][1] + (r - RowStart(k) - 1)
                    IN  ResultSignal[r][c] =
                            IF exposes
                            THEN Sample(IF physical THEN "p" ELSE "d", seg_name[k], row,
                                        Index(dir[seg_name[k]].sig_name, name))
                            ELSE ResultFill(c)

C5_Witness ==
    /\ layout = "variable" /\ M2sReturned /\ physical
    /\ Len(seg_name) = 3
    /\ seg_name[2] # NullName /\ seg_name[3] # NullName
    /\ \E c \in 1..Len(result.sig_name) :
          /\ result.sig_name[c] = "II"
          /\ dir[seg_name[2]].sig_name[1] = "II"
          /\ ~Contains(dir[seg_name[3]].sig_name, "II")
          /\ ResultSignal[1][c][1] = "p"
          /\ ResultSignal[sig_len][c] = NaN

\* C7: multi_to_single with physical=False on a variable-layout record raises
\* and returns no Record whenever two segments read hold a channel of the same
\* name with a different fmt, adc_gain, baseline or units, and returns a Record
\* when all same-named channels agree on the four fields.
C7_DigitalMismatchFails ==
    (layout = "variable" /\ ~physical /\ M2sFinished) =>
        /\ Disagree => (M2sRaised /\ result = NoObject)
        /\ ~Disagree => (M2sReturned /\ result # NoObject)

C7_Witness ==
    /\ layout = "variable" /\ ~physical /\ M2sRaised
    /\ FieldDisagree("units")
    /\ \A field \in SpecFields \ {"units"} : ~FieldDisagree(field)

\* C8: multi_to_single with physical=True on a variable-layout record never
\* raises; each of fmt, adc_gain, baseline and units on which some same-named
\* channel disagrees between two segments read is left unset in the Record, and
\* each of them on which no channel disagrees is carried over per channel with
\* the value the segments hold.
C8_PhysicalMismatchOmits ==
    (layout = "variable" /\ physical /\ M2sFinished) =>
        /\ M2sReturned
        /\ \A field \in SpecFields :
              IF FieldDisagree(field)
              THEN field \notin DOMAIN result
              ELSE /\ field \in DOMAIN result
                   /\ Len(result[field]) = Len(result.sig_name)
                   /\ \A c \in 1..Len(result.sig_name) : \A k \in 2..Len(segments) :
                         segments[k] # NoObject =>
                             \A j \in 1..Len(segments[k].sig_name) :
                                 segments[k].sig_name[j] = result.sig_name[c] =>
                                     result[field][c] = FieldOf(segments[k], field)[j]

C8_Witness ==
    /\ layout = "variable" /\ physical /\ M2sReturned
    /\ FieldDisagree("adc_gain")
    /\ "adc_gain" \notin DOMAIN result
    /\ "fmt" \in DOMAIN result
    /\ \E c \in 1..Len(result.sig_name) : result["fmt"][c] # None

\* check_read_inputs of the whole record has returned / has raised
Accepted == pc \in {"empty", "required_segments", "rd_segment"}
Rejected == pc = "raised" /\ segments = NoObject
AfterCheck == Accepted \/ Rejected

RangeValid == 0 <= sampfrom /\ sampfrom < sampto /\ sampto <= sig_len
ChannelsValid == \A c \in Range(channels) : 0 <= c /\ c <= n_sig - 1
ReturnResValid == return_res \in {64, 32, 16, 8} /\ ~(physical /\ return_res = 8)

\* C9: check_read_inputs accepts integer sampfrom, sampto and channels only if
\* 0 <= sampfrom < sampto <= sig_len and every channel lies in 0 .. n_sig-1; for
\* every other combination it raises ValueError.
C9_RangeAndChannels ==
    AfterCheck =>
        /\ Accepted => (RangeValid /\ ChannelsValid)
        /\ ~(RangeValid /\ ChannelsValid) => (Rejected /\ err = "ValueError")

C9_Witness ==
    /\ Rejected /\ err = "ValueError"
    /\ sampto = sampfrom /\ 0 < sampfrom /\ sampto < sig_len
    /\ ChannelsValid /\ ReturnResValid /\ smooth_frames

\* C10: check_read_inputs raises ValueError when return_res is not one of 64,
\* 32, 16, 8 and when physical is True and return_res is 8; every other pair
\* (physical, return_res) is accepted by this check.
C10_ReturnRes ==
    AfterCheck =>
        /\ ~ReturnResValid => (Rejected /\ err = "ValueError")
        /\ (ReturnResValid /\ RangeValid /\ ChannelsValid /\ smooth_frames) => Accepted

C10_Witness ==
    /\ Rejected /\ err = "ValueError"
    /\ physical /\ return_res = 8
    /\ RangeValid /\ ChannelsValid /\ smooth_frames

\* check_read_inputs has raised its ValueError: rdrecord has ended on a
\* ValueError before any segment was looked at
CheckRejected == Rejected /\ err = "ValueError"
CheckReturned == Accepted \/ CheckRejected

\* C11: check_read_inputs raises ValueError when smooth_frames is False and the
\* record is a MultiRecord, whatever the other arguments and so for every
\* otherwise valid input; on a single-segment Record it accepts smooth_frames =
\* False with every valid range, channel list and return_res.
C11_SmoothFramesMultiOnly ==
    CheckReturned =>
        /\ (IsMultiRecord(layout) /\ ~smooth_frames) => CheckRejected
        /\ (/\ ~IsMultiRecord(layout)
            /\ ~smooth_frames
            /\ RangeValid /\ ChannelsValid /\ ReturnResValid) => Accepted

C11_Witness ==
    /\ CheckRejected
    /\ IsMultiRecord(layout) /\ ~smooth_frames
    /\ RangeValid /\ ChannelsValid /\ ReturnResValid
    /\ Len(channels) > 0

\* check_field has returned or raised for field f
FieldChecked(f) == cf_field = f /\ pc \in {"done", "raised"}

\* the list check_field is given, its length and its entry of channel ch
ItemIsList == TypeOf(cf_item) = "list"
ItemLen == Len(Elems(cf_item))
Entry(ch) == At(Elems(cf_item), ch)
ItemChannels == 0..(ItemLen - 1)
Required == RequiredSet(cf_required_channels, ItemLen) \cap ItemChannels

\* every entry of the list has one of the types, or is None outside the
\* required channels
ListOf(types) ==
    /\ ItemIsList
    /\ \A ch \in ItemChannels :
          \/ TypeOf(Entry(ch)) \in types
          \/ Entry(ch) = PyNone /\ ch \notin Required

\* C12: check_field('adc_gain') raises ValueError if the gain of a required
\* channel is zero or negative, as for adc_gain = [0.0], and accepts the field
\* when every gain is strictly positive.
C12_AdcGainPositive ==
    (FieldChecked("adc_gain") /\ ListOf({"int", "float"})) =>
        /\ (\E ch \in Required : NumLeq(Entry(ch), Zero)) => err = "ValueError"
        /\ (\A ch \in ItemChannels : Entry(ch) # PyNone => NumLess(Zero, Entry(ch)))
              => (pc = "done" /\ err = "")

C12_Witness ==
    /\ FieldChecked("adc_gain")
    /\ cf_item = PyList(<<PyFloat(0)>>)
    /\ cf_required_channels = <<>>
    /\ err = "ValueError"

\* two channels hold the same name / a name holds whitespace
DuplicateName ==
    \E c1, c2 \in ItemChannels :
        c1 # c2 /\ Entry(c1) # PyNone /\ Entry(c1) = Entry(c2)
WhitespaceName ==
    \E ch \in ItemChannels : \E i \in 1..Len(Elems(Entry(ch))) :
        Elems(Entry(ch))[i] \in SpaceChars

\* C13: check_field('sig_name') raises ValueError whenever two channels carry
\* the same signal name, as for ['I', 'I'], or a name contains whitespace, and
\* accepts every list of pairwise distinct names without whitespace.
C13_SigNameUnique ==
    /\ (FieldChecked("sig_name") /\ ListOf({"str"})) =>
            ((DuplicateName \/ WhitespaceName) => err = "ValueError")
    /\ (/\ FieldChecked("sig_name")
        /\ ItemIsList
        /\ \A ch \in ItemChannels : TypeOf(Entry(ch)) = "str") =>
            (~(DuplicateName \/ WhitespaceName) => (pc = "done" /\ err = ""))

C13_Witness ==
    /\ FieldChecked("sig_name")
    /\ cf_item = PyList(<<PyStr(<<"I">>), PyStr(<<"I">>)>>)
    /\ err = "ValueError"

\* every distinct value of l occupies one contiguous run of positions
Contiguous(l) ==
    \A i, j \in 1..Len(l) :
        (i < j /\ l[i] = l[j]) => \A k \in i..j : l[k] = l[i]

\* the whole of s is a name, an optional dot and an extension
WellFormedName(s) ==
    \E i \in 1..Len(s) :
        /\ \A j \in 1..i : s[j] \in DashWordChars
        /\ \/ /\ i < Len(s)
              /\ \A j \in (i + 1)..Len(s) : s[j] \in WordChars
           \/ /\ i + 1 < Len(s)
              /\ s[i + 1] = "."
              /\ \A j \in (i + 2)..Len(s) : s[j] \in WordChars

InInt32(v) ==
    /\ NumLeq(PyBigInt(-(2^15), 0), v)
    /\ NumLeq(v, PyBigInt(2^15 - 1, Limb - 1))

\* C15 as claimed: check_field('baseline') raises ValueError for every baseline
\* outside -2147483648 .. 2147483647 and accepts every value inside that range.
C15_BaselineInt32 ==
    (FieldChecked("baseline") /\ ListOf({"int"})) =>
        IF \E ch \in ItemChannels : Entry(ch) # PyNone /\ ~InInt32(Entry(ch))
        THEN err = "ValueError"
        ELSE pc = "done" /\ err = ""

\* check_field has returned or raised
AnyFieldChecked == cf_field # "" /\ pc \in {"done", "raised"}

\* C16: for every field, check_field fails with the missing-field error when
\* the field is None, whatever a check of the type or of the domain of None
\* would have said; the error is an Exception, which is neither the TypeError
\* nor the ValueError of the later checks, and it is raised for no other value.
C16_MissingFieldFirst ==
    AnyFieldChecked =>
        /\ cf_item = PyNone => (pc = "raised" /\ err = "Exception")
        /\ err = "Exception" => cf_item = PyNone
        /\ err \in {"", "Exception", "TypeError", "ValueError"}

C16_Witness ==
    /\ AnyFieldChecked
    /\ cf_item = PyNone
    /\ cf_field = "sig_name"
    /\ cf_required_channels = <<<<>>>>
    /\ err = "Exception"

\* the entry is a valid value of one channel of the field
EntryValid(f, v) ==
    /\ TypeOf(v) \in AllowedTypes(f)
    /\ CASE f = "file_name"       -> WellFormedName(Elems(v))
          [] f = "fmt"             -> Elems(v) \in DAT_FMTS
          [] f = "samps_per_frame" -> NumLeq(One, v)
          [] f = "adc_gain"        -> NumLess(Zero, v)
          [] f = "baseline"        -> InInt32(v)
          [] f = "units"           -> \A i \in 1..Len(Elems(v)) : Elems(v)[i] \notin SpaceChars
          [] f = "sig_name"        -> \A i \in 1..Len(Elems(v)) : Elems(v)[i] \notin SpaceChars
          [] f \in {"skew", "byte_offset", "adc_res", "block_size"} -> NumLeq(Zero, v)
          [] OTHER                 -> TRUE

\* C17 as claimed: for every per-channel field and every list of required
\* channels, check_field accepts a list whose entries outside the required
\* channels are None when the entries at the required channels are valid
\* (names pairwise distinct, channels of one file next to each other), and it
\* raises TypeError when an entry at a required channel is None.
C17_NoneOutsideRequired ==
    (/\ AnyFieldChecked
     /\ cf_field \in SignalSpecs
     /\ ItemIsList
     /\ cf_required_channels # <<>>) =>
        /\ (/\ \A ch \in ItemChannels \ Required : Entry(ch) = PyNone
            /\ \A ch \in Required : EntryValid(cf_field, Entry(ch))
            /\ \A c1, c2 \in Required :
                  (c1 < c2 /\ Entry(c1) = Entry(c2)) =>
                      /\ cf_field # "sig_name"
                      /\ cf_field = "file_name" => c2 = c1 + 1)
              => (pc = "done" /\ err = "")
        /\ (\E ch \in Required : Entry(ch) = PyNone) => err = "TypeError"

\* rdrecord has returned or raised
Finished == pc \in {"done", "raised"}

\* the channel selection matches nothing: channels=[] was given (and is still
\* the list of channels), or none of the channel_names is a signal of the record
NamesMatchNothing ==
    /\ channel_names # <<>>
    /\ \A i \in 1..Len(channel_names[1]) : ~Contains(SigNames, channel_names[1][i])
EmptySelection == (channel_names = <<>> /\ channels = <<>>) \/ NamesMatchNothing

\* C18 as claimed: rdrecord with a channel selection that matches nothing
\* (channels=[] or channel_names none of which occur in the record), a valid
\* sample range and valid other arguments raises no exception and returns a
\* Record with n_sig = 0 and sig_len = 0 that carries over the other fields of
\* the record line; the notice is printed exactly when warn_empty is set.
C18_EmptySelectionReturns ==
    (/\ Finished
     /\ EmptySelection
     /\ RangeValid /\ ReturnResValid
     /\ IsMultiRecord(layout) => smooth_frames) =>
        /\ pc = "done"
        /\ result # NoObject
        /\ result.n_sig = 0 /\ result.sig_len = 0
        /\ result.record_name = RecordName
        /\ result.fs = fs
        /\ result.counter_freq = counter_freq
        /\ result.base_counter = base_counter
        /\ result.base_time = base_time
        /\ result.base_date = base_date
        /\ stdout = (IF warn_empty THEN <<EmptyNotice>> ELSE <<>>)

\* rdrecord has returned the record of a non-empty channel list
ReturnedSignals == pc = "done" /\ Len(channels) > 0

\* the entries of field f of header h (a file name) for the channels requested
Requested(h, f) == [i \in 1..Len(channels) |-> At(dir[h][f], channels[i])]

CohesionChecked == Finished /\ cf_field = "" /\ result = NoObject /\ layout = None

\* the four faults of the claim
CountDiffers == n_seg # Len(segments)
FsDiffers == \E i \in 1..Len(segments) : segments[i].fs # fs
LenDiffers == \E i \in 1..Len(segments) : segments[i].sig_len # seg_len[i]
LayoutFileNamed ==
    /\ Len(segments) >= 1
    /\ seg_len[1] = 0
    /\ \E j \in 1..Len(segments[1].file_name) : segments[1].file_name[j] # "~"

\* C20 as claimed: _check_segment_cohesion raises ValueError exactly when the
\* number of segments differs from n_seg, or a segment's fs differs from the
\* record's fs, or a segment's sig_len differs from its seg_len entry, or a
\* zero-length layout segment has a file name other than '~'; for a record with
\* none of these faults it returns without raising.
C20_SegmentCohesion ==
    CohesionChecked =>
        IF CountDiffers \/ FsDiffers \/ LenDiffers \/ LayoutFileNamed
        THEN pc = "raised" /\ err = "ValueError"
        ELSE pc = "done" /\ err = ""

\* the day after date d, by the calendar
NextDay(d) ==
    LET leap == d[1] % 4 = 0 /\ (d[1] % 100 # 0 \/ d[1] % 400 = 0)
        last == IF d[2] = 2 THEN (IF leap THEN 29 ELSE 28)
                ELSE IF d[2] \in {4, 6, 9, 11} THEN 30 ELSE 31
    IN  IF d[3] < last THEN <<d[1], d[2], d[3] + 1>>
        ELSE IF d[2] < 12 THEN <<d[1], d[2] + 1, 1>>
        ELSE <<d[1] + 1, 1, 1>>

RECURSIVE DaysLater(_, _)
DaysLater(d, k) ==
    IF k = 0 THEN d
    ELSE LET next == NextDay(d)
         IN  IF next[3] >= 1 THEN DaysLater(next, k - 1) ELSE d

\* the instant secs seconds and us microseconds after time t of day d
Later(d, t, secs, us) ==
    LET u == t[4] + us
        s == t[1] * 3600 + t[2] * 60 + t[3] + secs + u \div 1000000
        sod == s % 86400
    IN  <<DaysLater(d, s \div 86400),
          <<sod \div 3600, (sod \div 60) % 60, sod % 60, u % 1000000>>>>

\* us is a whole number of microseconds nearest to (sf % f) / f seconds
NearestMicrosecond(us, sf, f) ==
    LET exact == (sf % f) * 1000000
        diff == IF us * f >= exact THEN us * f - exact ELSE exact - us * f
    IN  2 * diff <= f

\* the microseconds that may stand for the fraction of sf / f seconds
Microseconds(sf, f) ==
    {us \in {((sf % f) * 1000000) \div f, ((sf % f) * 1000000) \div f + 1} :
        NearestMicrosecond(us, sf, f)}

\* the start of the record is moved from (bd, bt) to (bd2, bt2) as C21 says
StartAdvanced(sf, f, bd, bt, bd2, bt2) ==
    IF sf = 0 THEN bd2 = bd /\ bt2 = bt
    ELSE IF bd # NoObject /\ bt # NoObject
    THEN \E us \in Microseconds(sf, f) : <<bd2, bt2>> = Later(bd, bt, sf \div f, us)
    ELSE IF bt # NoObject
    THEN /\ bd2 = NoObject
         /\ \E us \in Microseconds(sf, f) :
               bt2 = Later(<<2001, 1, 1>>, bt, sf \div f, us)[2]
    ELSE bd2 = bd /\ bt2 = bt

\* C21: a call of _adjust_datetime(sampfrom) moves (base_date, base_time) to
\* the start instant plus sampfrom / fs seconds (to the microsecond), the date
\* rolling over by the calendar when the time passes midnight; it changes
\* neither for sampfrom 0; with only base_time set the time advances modulo
\* 24 hours and base_date stays unset; with only base_date set nothing changes.
C21_StartAdvanced ==
    [][pc = "adjust_datetime" =>
          StartAdvanced(sampfrom, fs, base_date, base_time, base_date', base_time')]_vars

\* a start on the last second of February 28th of a leap year has moved two
\* days on, into March
C21_Witness ==
    /\ pc = "done"
    /\ sampfrom = 172801
    /\ fs = 1
    /\ base_date = <<2020, 3, 2>>
    /\ base_time = <<0, 0, 0, 999999>>
    /\ base_datetime # NoObject

\* a call of Record.wrsamp or MultiRecord.wrsamp has ended
WriteFinished == self_rec # NoObject /\ args = NoObject /\ pc \in {"done", "raised"}
WroteRecord == WriteFinished /\ "file_name" \in DOMAIN self_rec

\* C22 as claimed: wrsamp completes every field and signal check before it
\* emits a file, so a call that ends in an exception has written no file; a
\* call of Record.wrsamp that passes the checks has written the header first,
\* then the dat files, and dat files only when n_sig > 0.
C22_ValidateBeforeEmit ==
    /\ WriteFinished /\ err # "" => written = <<>>
    /\ WroteRecord /\ err = "" =>
          /\ written[1] = HeaderFile(self_rec.record_name)
          /\ \A i \in 2..Len(written) : written[i] \in Range(self_rec.file_name)
          /\ Range(self_rec.file_name) \subseteq Range(written)
          /\ Len(written) > 1 <=> self_rec.n_sig > 0

\* the arguments the claim says the function wrsamp fails on
BadArguments ==
    \/ \E i \in 1..Len(args.record_name) : args.record_name[i] = "."
    \/ args.p_signal /\ args.d_signal
    \/ args.d_signal /\ ~(args.fmt /\ args.adc_gain /\ args.baseline)

OneSignal == args.p_signal # args.d_signal

\* the calls the function wrsamp makes when it does not fail, in order
WrsampCalls ==
    <<"Record", IF args.p_signal THEN "set_d_features(do_adc=1)" ELSE "set_d_features()",
      "set_defaults", "wrsamp">>

\* C23: the function wrsamp raises, with no record constructed and no file
\* written, when both p_signal and d_signal are given, when d_signal is given
\* without fmt, adc_gain or baseline, or when record_name contains '.'; in every
\* other case with exactly one signal given it constructs the record and sets
\* its features, then sets the defaults, then writes, in that order, and stops
\* early only where one of those calls raises.
C23_WrsampGateway ==
    args # NoObject /\ pc # "wrsamp" =>
        IF BadArguments
        THEN /\ pc = "raised" /\ err = "Exception"
             /\ calls = <<>> /\ self_rec = NoObject /\ written = <<>>
        ELSE OneSignal =>
             /\ calls = SubSeq(WrsampCalls, 1, Len(calls))
             /\ pc = "raised" => Len(calls) >= 2
             /\ pc = "done" => calls = WrsampCalls
             /\ written # <<>> => calls = WrsampCalls
             /\ pc = "set_defaults" <=> Len(calls) = 2 /\ err = ""
             /\ pc = "write" <=> Len(calls) = 3 /\ err = ""

\* a d_signal given with fmt, adc_gain and baseline has been written
C23_Witness ==
    /\ args # NoObject
    /\ ~BadArguments /\ args.d_signal
    /\ pc = "done"
    /\ calls = WrsampCalls
    /\ Len(written) = 2

\* a call of __eq__ has ended
EqFinished == other_rec # NoObject /\ pc \in {"done", "raised"}

\* both objects have the same attributes with the same values, a nan of an
\* array being the same as a nan
SameAttributes ==
    /\ DOMAIN self_rec = DOMAIN other_rec
    /\ \A k \in DOMAIN self_rec : self_rec[k] = other_rec[k]

\* C24 as claimed: Record.__eq__ returns a boolean for every pair of Record
\* objects, True when both have the same attributes with equal values (nan
\* equal to nan in signal arrays) and False, without raising, when an
\* attribute differs, also when two signal arrays differ in content or shape.
C24_EqReturnsBoolean ==
    EqFinished => pc = "done" /\ err = "" /\ result = <<SameAttributes>>

\* every character of s is a letter, a digit, a hyphen or an underscore
OnlyNameChars(s) == \A i \in 1..Len(s) : s[i] \in DashWordChars

\* the item is a list of strings
ListOfNames == ItemIsList /\ \A ch \in ItemChannels : TypeOf(Entry(ch)) = "str"

\* C25 as claimed: check_field('record_name') raises ValueError for every name
\* that holds a character other than letters, digits, hyphens and underscores
\* and accepts every non-empty name made of those only; check_field('seg_name')
\* raises ValueError when a segment name other than '~' holds such a character
\* and accepts a list of names that are '~' or made of those characters only.
C25_NameCharacters ==
    /\ FieldChecked("record_name") /\ TypeOf(cf_item) = "str" /\ Elems(cf_item) # <<>> =>
          IF OnlyNameChars(Elems(cf_item)) THEN pc = "done"
          ELSE pc = "raised" /\ err = "ValueError"
    /\ FieldChecked("seg_name") /\ ListOfNames /\ ItemLen > 0 =>
          IF \A ch \in ItemChannels :
                \/ Elems(Entry(ch)) = <<"~">>
                \/ OnlyNameChars(Elems(Entry(ch)))
          THEN pc = "done"
          ELSE pc = "raised" /\ err = "ValueError"

\* the segments of a MultiRecord have just been read
SegmentsRead == IsMultiRecord(layout) /\ pc = "arrange_fields"

\* the position in seg_numbers of a segment that was read from its dat files
ReadPositions ==
    {i \in 1..Len(seg_numbers) : At(segments, seg_numbers[i]) # NoObject}

\* the signal array of a segment read
SegmentSignal(seg) == IF physical THEN seg.p_signal ELSE seg.d_signal

\* the rows of the dat file the samples of segment position i come from are
\* those asked for, with no skew applied
Unskewed(i) ==
    LET sig == SegmentSignal(At(segments, seg_numbers[i]))
    IN  \A r \in 1..Len(sig) : \A c \in 1..Len(sig[r]) :
            sig[r][c][3] = seg_ranges[i][1] + r - 1

\* C26 as claimed: with ignore_skew=True on a multi-segment record, every
\* segment is read with the skew bypassed, as in a direct single-segment read.
C26_IgnoreSkewInSegments ==
    SegmentsRead /\ ignore_skew => \A i \in ReadPositions : Unskewed(i)

\* channel_names was given for a multi-segment record and has been looked up
NamesLookedUp == IsMultiRecord(layout) /\ channel_names # <<>> /\ pc # "channel_names"

\* the first segment name that is not '~'
FirstRealSegment ==
    seg_name[Min({i \in 1..Len(seg_name) : seg_name[i] # NullName})]

\* the header C27 names: of the first non-null segment for a fixed layout, of
\* the layout segment for a variable layout
NamedReference ==
    IF layout = "fixed" THEN dir[FirstRealSegment] ELSE dir[seg_name[1]]

\* C27 as claimed: channel_names given for a multi-segment record is resolved
\* against the header of the first non-null segment (fixed layout, also when
\* segment 0 is null) or of the layout segment (variable layout), and the
\* channels so found replace the channels argument.
C27_NamesAgainstFirstRealSegment ==
    NamesLookedUp /\ (\E i \in 1..Len(seg_name) : seg_name[i] # NullName) =>
        /\ err \notin {"FileNotFoundError", "IndexError"}
        /\ channels = get_wanted_channels(channel_names[1], NamedReference.sig_name)

\* a single-segment record has been read with at least one channel
SingleRead == layout = None /\ pc = "done" /\ Len(channels) > 0

\* the samples the returned record holds for its c-th channel
HeldSamples(c) ==
    IF result.d_signal # NoObject
    THEN [r \in 1..Len(result.d_signal) |-> result.d_signal[r][c]]
    ELSE IF result.p_signal # NoObject
    THEN [r \in 1..Len(result.p_signal) |-> result.p_signal[r][c]]
    ELSE IF result.e_d_signal # NoObject
    THEN result.e_d_signal[c]
    ELSE result.e_p_signal[c]

\* the checksum of the digital values at the positions of the samples l
ChecksumOf(l) == Sum([k \in 1..Len(l) |-> DigitalValue(l[k])]) % 65536

\* C28: after a single-segment read, when the number of frames read differs
\* from the sig_len of the header, init_value[c] is the first sample read of
\* selected channel c and checksum[c] is computed from the samples held; when
\* the whole length was read both keep the values of the header, reordered
\* to the selected channels; n_sig and sig_len are those of the read.
C28_ChecksFollowRead ==
    SingleRead =>
        /\ \A c \in 1..Len(channels) :
              IF sampto - sampfrom # dir[RecordName].sig_len
              THEN /\ result.init_value[c] = DigitalValue(HeldSamples(c)[1])
                   /\ result.checksum[c] = ChecksumOf(HeldSamples(c))
              ELSE /\ result.init_value[c] = At(dir[RecordName].init_value, channels[c])
                   /\ result.checksum[c] = At(dir[RecordName].checksum, channels[c])
        /\ Len(result.init_value) = Len(channels)
        /\ Len(result.checksum) = Len(channels)
        /\ result.n_sig = Len(channels)
        /\ result.sig_len = sampto - sampfrom

\* part of a record was read in expanded form, channels in another order
\* than in the header, and the checksum of channel 0 wrapped around
C28_Witness ==
    /\ SingleRead
    /\ sampto - sampfrom < dir[RecordName].sig_len
    /\ channels = <<1, 0>>
    /\ result.e_d_signal # NoObject
    /\ result.checksum[2] < 30000
    /\ result.checksum[1] > 60000

\* a variable-layout record has been read and its fields arranged
LayoutArranged ==
    /\ layout = "variable"
    /\ Len(channels) > 0
    /\ pc \in {"multi_to_single", "done"}

\* the signal names of the requested channels, in the order of the request
RequestedNames ==
    [c \in 1..Len(channels) |-> At(dir[LayoutName].sig_name, channels[c])]

\* the signal name occurs in the header of a segment that was read
OccursInRead(name) ==
    \E k \in 2..Len(segments) :
        segments[k] # NoObject /\ name \in Range(dir[seg_name[k]].sig_name)

\* the names C29 expects in the layout segment
ExpectedNames ==
    IF force_channels THEN RequestedNames ELSE SelectSeq(RequestedNames, OccursInRead)

\* C29: after a variable-layout read the layout segment and n_sig hold, with
\* force_channels, the requested channels in the order of the request, and
\* without it those of them whose signal name occurs in a segment that was
\* read, in the same order (n_sig may be 0); every signal specification field
\* of the layout segment has n_sig entries, those of the channels kept.
C29_LayoutSegmentChannels ==
    LayoutArranged =>
        /\ segments[1].sig_name = ExpectedNames
        /\ n_sig = Len(ExpectedNames)
        /\ segments[1].n_sig = n_sig
        /\ \A f \in SpecFields :
              FieldOf(segments[1], f) = [i \in 1..n_sig |-> BaseField(f, ExpectedNames[i])]

\* both channels were asked for in reverse order without force_channels, and
\* only one of them occurs in the segments read
C29_Witness ==
    /\ LayoutArranged
    /\ ~force_channels
    /\ channels = <<1, 0>>
    /\ segments[1].sig_name = <<"I">>
    /\ n_sig = 1

\* rdrecord was called on a record without signals whose header does not
\* state the signal length
NoSignalRecord ==
    /\ layout = None
    /\ dir[RecordName].n_sig = 0
    /\ dir[RecordName].sig_len = NoInt

\* the call left every argument at its default
DefaultArguments ==
    /\ sampfrom = 0
    /\ args.sampto = NoInt
    /\ args.channels = <<>> /\ args.channel_names = <<>>
    /\ physical /\ smooth_frames /\ ~warn_empty /\ ~ignore_skew
    /\ return_res = 64 /\ force_channels /\ m2s

\* C30 as claimed: rdrecord with default arguments on a single-segment record
\* without signals and without a signal length in its header sets sig_len to
\* 0 and returns a Record with n_sig = 0 and sig_len = 0; it does not raise.
C30_NoSignalRecordReturns ==
    (NoSignalRecord /\ DefaultArguments /\ Finished) =>
        /\ err = ""
        /\ pc = "done"
        /\ sig_len = 0
        /\ result # NoObject
        /\ result.n_sig = 0
        /\ result.sig_len = 0

====
